---- MODULE Spec2Model ----
(***************************************************************************)
(* A model of the telex store-and-forward core: the durable message queue  *)
(* (telex.core.database, telex.core.dao), its time-based garbage           *)
(* collector (telex.core.garbage_collector) and the deduplication store    *)
(* (telex.adapters.database).                                              *)
(*                                                                         *)
(* Time is counted in whole ticks; one tick stands for one hour, the unit  *)
(* of ttl_hours, and every datetime falls on a tick (its microsecond is 0, *)
(* so isoformat() writes no fraction).  A datetime is a wall-clock reading *)
(* together with the UTC offset of its tzinfo; the instant it denotes is   *)
(* loc - off.  SQLite keeps created_at as ISO-8601 TEXT and compares it    *)
(* bytewise, which is modelled by IsoFormat and TextLess.                  *)
(***************************************************************************)
EXTENDS Integers, Naturals, Sequences, FiniteSets, TLC

VARIABLES
    now,        \* the wall clock, in ticks (datetime.now(UTC))
    queue,      \* the rows of table message_queue
    last,       \* the DAO / collector call that returned last, and its outcome
    seen,       \* the committed rows of table seen_messages (the file)
    uncommitted,\* rows written through the open connection, not yet committed
    conn,       \* DatabaseManager._connection of the dedup manager: "none" | "open"
    mgr,        \* how many dedup DatabaseManager objects were made for the file
    dlast,      \* the dedup call that returned last, and its outcome
    saved,      \* history: the save calls that returned first for each id
    pool,       \* the dedup manager among concurrent callers: _connection,
                \* the connections opened and not closed, each caller's position
    enq,        \* history, kept under SpecDao: per id, the message enqueued
                \* and not since deleted, updated or expired
    server,     \* AsyncTCPNetworkAdapter.server: "none" | "listening" | "closed"
    net_running,\* AsyncTCPNetworkAdapter._running
    conns,      \* per accepted connection, the position of its _handle_client
    nlast,      \* the step the adapter took last, and what it read
    gc_running, \* GarbageCollector._running
    gc_task,    \* GarbageCollector._task: 0 for None, else the task
    tasks,      \* per task made by start(), the position of its _run_loop
    stops,      \* the tasks awaited by stop() calls that have not returned
    glast       \* the collector call that returned last, and its outcome

qvars == <<queue, last>>
dvars == <<seen, uncommitted, conn, mgr, dlast, saved, pool>>
nvars == <<server, net_running, conns, nlast>>
gvars == <<gc_running, gc_task, tasks, stops, glast>>
svars == <<nvars, gvars>>
vars == <<now, queue, last, seen, uncommitted, conn, mgr, dlast, saved, pool, enq,
          server, net_running, conns, nlast, gc_running, gc_task, tasks, stops, glast>>

----------------------------------------------------------------------------
(* Bounds of the model *)

MaxNow == 2
MaxLimit == 2
TtlHours == 1
MaxLoc == 1
MaxManagers == 2

Uuids == {1, 2}
MessageIds == {"123", "999"}
Offsets == {-2, 0, 2}

----------------------------------------------------------------------------
(* telex.core.models *)

PENDING == "PENDING"
SENT == "SENT"
FAILED == "FAILED"
EXPIRED == "EXPIRED"
MessageStatus == {PENDING, SENT, FAILED, EXPIRED}

\* Field(ge=0, le=10) on QueuedMessage.priority
PriorityMin == 0
PriorityMax == 10

\* datetime values: wall clock and UTC offset of the tzinfo
Datetime(l, o) == [loc |-> l, off |-> o]
Instant(dt) == dt.loc - dt.off
\* datetime.__eq__ / __lt__ on aware datetimes compare the instants denoted
DtEq(a, b) == Instant(a) = Instant(b)
DtLess(a, b) == Instant(a) < Instant(b)
\* datetime.now(UTC)
NowUtc(t) == Datetime(t, 0)

----------------------------------------------------------------------------
(* Conversions between Python values and the TEXT columns *)

\* str(uuid) and UUID(text): the canonical text of a UUID
UuidStr(u) == <<"uuid", u>>
UuidParse(t) == t[2]
\* What the id column can hold besides the text of a UUID: another text, or
\* NULL (the column is TEXT PRIMARY KEY without NOT NULL)
NotUuid == <<"text", 0>>
NullId == <<"null", 0>>
\* the exception UUID(...) raises on a column value, "" when it returns
UuidError(t) ==
    IF t = NullId THEN "TypeError" ELSE IF t[1] # "uuid" THEN "ValueError" ELSE ""

\* datetime.isoformat(): "<wall clock><sign><hh>:00"; the sign character is
\* '+' (ASCII 43) for offsets >= 0 and '-' (ASCII 45) below
PlusChar == 43
MinusChar == 45
IsoFormat(dt) ==
    <<dt.loc, IF dt.off >= 0 THEN PlusChar ELSE MinusChar,
      IF dt.off >= 0 THEN dt.off ELSE -dt.off>>
\* a parse that drops the offset and reads the wall clock as UTC
FromIsoFormatNaive(t) == Datetime(t[1], 0)

\* datetime.fromisoformat()
FromIsoFormat(t) == Datetime(t[1], IF t[2] = PlusChar THEN t[3] ELSE -t[3])
\* a text that is no ISO-8601 timestamp: '?' (ASCII 63) stands where the
\* sign of the offset belongs; fromisoformat raises ValueError on it
QuestionChar == 63
IsoError(t) == IF t[2] \notin {PlusChar, MinusChar} THEN "ValueError" ELSE ""

\* SQLite's BINARY collation on two ISO texts: left to right, first difference
TextLess(a, b) ==
    \/ a[1] < b[1]
    \/ a[1] = b[1] /\ a[2] < b[2]
    \/ a[1] = b[1] /\ a[2] = b[2] /\ a[3] < b[3]

\* Payloads (Dict[str, Any]) told apart by the value under their one key:
\*   "empty" {}, "list" {"k": [1]}, "tuple" {"k": (1,)}, "object" {"k": object()}
PyPayloads == {"empty", "list", "tuple", "object"}
\* json.dumps: lists and tuples both become JSON arrays; an arbitrary object
\* is not serializable (TypeError)
JsonSerializable(p) == p # "object"
JsonDumps(p) == IF p = "empty" THEN "{}" ELSE "{\"k\": [1]}"
\* json.loads: a JSON array becomes a list; anything else here is malformed
JsonValid(t) == t \in {"{}", "{\"k\": [1]}"}
JsonLoads(t) == IF t = "{}" THEN "empty" ELSE "list"
\* Texts the payload column can hold besides those json.dumps writes: a
\* malformed text, and a document nested deeper than the parser recurses
MalformedJson == "{bad"
DeepJson == "{\"k\": [[[...]]]}"
\* the exception json.loads raises on a text, "" when it returns
JsonLoadsError(t) ==
    IF t = DeepJson THEN "RecursionError"
    ELSE IF ~JsonValid(t) THEN "JSONDecodeError" ELSE ""

\* A QueuedMessage object
QueuedMessage(i, p, pl, c, s) ==
    [id |-> i, priority |-> p, payload |-> pl, created_at |-> c, status |-> s]

\* Equality of two QueuedMessage objects, field by field (BaseModel.__eq__)
MsgEq(a, b) ==
    /\ a.id = b.id
    /\ a.priority = b.priority
    /\ a.payload = b.payload
    /\ DtEq(a.created_at, b.created_at)
    /\ a.status = b.status

----------------------------------------------------------------------------
(* telex.core.database: table message_queue *)

\* The row INSERTed by enqueue for msg
ToRow(msg) ==
    [id |-> UuidStr(msg.id),
     priority |-> msg.priority,
     payload |-> JsonDumps(msg.payload),
     created_at |-> IsoFormat(msg.created_at),
     status |-> msg.status]

\* a table whose id column is not a key
PrimaryKeyUnchecked(tbl, row) == TRUE

\* a table created without its CHECK clause
CheckOmitted(row) == TRUE

\* CHECK (priority >= 0 AND priority <= 10)
CheckConstraint(row) == row.priority >= PriorityMin /\ row.priority <= PriorityMax
\* id TEXT PRIMARY KEY
PrimaryKeyFree(tbl, row) == \A r \in tbl : r.id # row.id

\* The exception raised while QueuedMessage(id=UUID(row["id"]), ...,
\* payload=json.loads(row["payload"]), created_at=datetime.fromisoformat(...),
\* status=MessageStatus(row["status"])) is built from a fetched row, its
\* arguments evaluated in this order; "" when the message is built
DeserializeError(row) ==
    IF UuidError(row.id) # "" THEN UuidError(row.id)
    ELSE IF JsonLoadsError(row.payload) # "" THEN JsonLoadsError(row.payload)
    ELSE IF IsoError(row.created_at) # "" THEN IsoError(row.created_at)
    ELSE IF row.status \notin MessageStatus THEN "ValueError" ELSE ""

\* except (json.JSONDecodeError, ValueError, KeyError)
Caught(err) == err \in {"JSONDecodeError", "ValueError", "KeyError"}

\* The QueuedMessage built from a fetched row; Parses is false when building
\* it raises (JSONDecodeError, ValueError)
Parses(row) == DeserializeError(row) = ""
FromRow(row) ==
    QueuedMessage(UuidParse(row.id), row.priority, JsonLoads(row.payload),
                  FromIsoFormat(row.created_at), row.status)

----------------------------------------------------------------------------
(* Outcome records *)

NoCall ==
    [op |-> "none", id |-> 0, limit |-> 0, st |-> "", raised |-> FALSE,
     err |-> "", ok |-> FALSE, batch |-> <<>>, count |-> 0, cutoff |-> <<>>, msg |-> <<>>,
     was |-> ""]

Call(name) == [NoCall EXCEPT !.op = name]

\* The same for the dedup store; at is the time of the call
DNoCall == [op |-> "none", id |-> "", at |-> 0, ok |-> FALSE, raised |-> FALSE]
DCall(name) == [DNoCall EXCEPT !.op = name, !.at = now]

----------------------------------------------------------------------------
(* The SQL statements *)

\* INSERT OR REPLACE: a taken primary key replaces the row that holds it
InsertOrReplaceRow(tbl, row) ==
    IF ~CheckConstraint(row)
    THEN [raised |-> TRUE, err |-> "CHECK", tbl |-> tbl]
    ELSE [raised |-> FALSE, err |-> "",
          tbl |-> {r \in tbl : r.id # row.id} \cup {row}]

\* INSERT INTO message_queue ... : refused (IntegrityError) when the CHECK
\* constraint fails or the primary key is taken, in this order
Insert(tbl, row) ==
    IF ~CheckConstraint(row)
    THEN [raised |-> TRUE, err |-> "CHECK", tbl |-> tbl]
    ELSE IF ~PrimaryKeyFree(tbl, row)
         THEN [raised |-> TRUE, err |-> "UNIQUE", tbl |-> tbl]
         ELSE [raised |-> FALSE, err |-> "", tbl |-> tbl \cup {row}]

\* All orders of the rows of S that are ascending in created_at (TEXT order);
\* rows with equal created_at may come in either order
Ascending(S) ==
    {s \in [1..Cardinality(S) -> S] :
        /\ \A i, j \in 1..Cardinality(S) : i # j => s[i] # s[j]
        /\ \A i, j \in 1..Cardinality(S) :
              i < j => ~TextLess(s[j].created_at, s[i].created_at)}

\* LIMIT n: the first n rows; a negative n is no limit
Limit(s, n) == IF n < 0 \/ n >= Len(s) THEN s ELSE SubSeq(s, 1, n)

\* the same SELECT without its WHERE clause
SelectAnyStatus(tbl, st, n) == {Limit(s, n) : s \in Ascending(tbl)}

\* SELECT ... WHERE status = ? ORDER BY created_at ASC LIMIT ?
SelectPending(tbl, st, n) ==
    {Limit(s, n) : s \in Ascending({r \in tbl : r.status = st})}

\* a DELETE that reports a row even when none matched
DeleteByIdMiscounted(tbl, idText) ==
    [tbl |-> {r \in tbl : r.id # idText}, rowcount |-> 1]

\* a delete that keeps the row and marks it EXPIRED
SoftDeleteById(tbl, idText) ==
    [tbl |-> {IF r.id = idText THEN [r EXCEPT !.status = EXPIRED] ELSE r : r \in tbl},
     rowcount |-> Cardinality({r \in tbl : r.id = idText})]

\* DELETE FROM message_queue WHERE id = ?
DeleteById(tbl, idText) ==
    [tbl |-> {r \in tbl : r.id # idText},
     rowcount |-> Cardinality({r \in tbl : r.id = idText})]

\* an UPDATE without its WHERE clause
UpdateEveryRow(tbl, st, idText) ==
    [tbl |-> {[r EXCEPT !.status = st] : r \in tbl},
     rowcount |-> Cardinality(tbl)]

\* an UPDATE that moves a row only out of PENDING
UpdateFromPending(tbl, st, idText) ==
    [tbl |-> {IF r.id = idText /\ r.status = PENDING
              THEN [r EXCEPT !.status = st] ELSE r : r \in tbl},
     rowcount |-> Cardinality({r \in tbl : r.id = idText /\ r.status = PENDING})]

\* UPDATE message_queue SET status = ? WHERE id = ?
UpdateById(tbl, st, idText) ==
    [tbl |-> {IF r.id = idText THEN [r EXCEPT !.status = st] ELSE r : r \in tbl},
     rowcount |-> Cardinality({r \in tbl : r.id = idText})]

\* a schema script that drops the table and creates it again
DropAndCreateTable(tbl) == {}

\* CREATE TABLE IF NOT EXISTS ...; CREATE INDEX IF NOT EXISTS ...: the table
\* exists (the store was initialised on construction) and is left as it is
CreateTableIfNotExists(tbl) == tbl

\* SELECT ... WHERE id = ?
SelectById(tbl, idText) == {r \in tbl : r.id = idText}

\* DELETE FROM message_queue WHERE created_at < ?
DeleteExpired(tbl, cutoffStr) ==
    [tbl |-> {r \in tbl : ~TextLess(r.created_at, cutoffStr)},
     rowcount |-> Cardinality({r \in tbl : TextLess(r.created_at, cutoffStr)})]

----------------------------------------------------------------------------
(* telex.core.dao.MessageQueueDAO *)

\* The messages of a fetched batch: rows that fail to parse are skipped
ParseRows(rows) ==
    LET ok == SelectSeq(rows, Parses)
    IN  [i \in 1..Len(ok) |-> FromRow(ok[i])]

\* The exception that leaves the loop over the fetched rows: that of the
\* first row whose error the except clause does not name; "" when none
BatchError(rows) ==
    LET bad == {i \in 1..Len(rows) :
                   DeserializeError(rows[i]) # "" /\ ~Caught(DeserializeError(rows[i]))}
    IN  IF bad = {} THEN ""
        ELSE DeserializeError(rows[CHOOSE i \in bad : \A j \in bad : i <= j])

enqueue(msg) ==
    /\ IF ~JsonSerializable(msg.payload)
       THEN /\ queue' = queue
            /\ last' = [Call("enqueue") EXCEPT
                           !.id = msg.id, !.raised = TRUE, !.err = "TypeError"]
       ELSE LET r == Insert(queue, ToRow(msg))
            IN  /\ queue' = r.tbl
                /\ last' = [Call("enqueue") EXCEPT
                               !.id = msg.id, !.raised = r.raised, !.err = r.err,
                               !.msg = IF r.raised THEN <<>> ELSE <<msg>>]
    /\ UNCHANGED now

\* a fetch that claims the rows it returns by marking them SENT
get_next_batch_claiming(limit) ==
    /\ \E rows \in SelectPending(queue, PENDING, limit) :
          /\ last' = [Call("get_next_batch") EXCEPT
                         !.limit = limit,
                         !.raised = BatchError(rows) # "",
                         !.err = BatchError(rows),
                         !.batch = IF BatchError(rows) = "" THEN ParseRows(rows) ELSE <<>>]
          /\ queue' = {IF \E i \in 1..Len(rows) : rows[i] = r
                       THEN [r EXCEPT !.status = SENT] ELSE r : r \in queue}
    /\ UNCHANGED now

get_next_batch(limit) ==
    /\ \E rows \in SelectPending(queue, PENDING, limit) :
          last' = [Call("get_next_batch") EXCEPT
                      !.limit = limit,
                      !.raised = BatchError(rows) # "",
                      !.err = BatchError(rows),
                      !.batch = IF BatchError(rows) = "" THEN ParseRows(rows) ELSE <<>>]
    /\ UNCHANGED <<now, queue>>

delete(message_id) ==
    LET r == DeleteById(queue, UuidStr(message_id))
    IN  /\ queue' = r.tbl
        /\ last' = [Call("delete") EXCEPT !.id = message_id, !.ok = r.rowcount > 0]
        /\ UNCHANGED now

\* was, in the outcome record, is the status the row had before the call
update_status(message_id, status) ==
    LET r == UpdateById(queue, status, UuidStr(message_id))
        old == SelectById(queue, UuidStr(message_id))
    IN  /\ queue' = r.tbl
        /\ last' = [Call("update_status") EXCEPT
                       !.id = message_id, !.st = status, !.ok = r.rowcount > 0,
                       !.was = IF old = {} THEN ""
                               ELSE (CHOOSE o \in old : TRUE).status]
        /\ UNCHANGED now

\* get_by_id builds the message outside any try/except: a row that does not
\* parse makes the call raise
get_by_id(message_id) ==
    LET rows == SelectById(queue, UuidStr(message_id))
    IN  /\ IF rows = {}
           THEN last' = [Call("get_by_id") EXCEPT !.id = message_id]
           ELSE \E row \in rows :
                  last' = [Call("get_by_id") EXCEPT
                              !.id = message_id,
                              !.raised = ~Parses(row),
                              !.err = DeserializeError(row),
                              !.ok = Parses(row),
                              !.batch = IF Parses(row) THEN <<FromRow(row)>> ELSE <<>>]
        /\ UNCHANGED <<now, queue>>

----------------------------------------------------------------------------
(* telex.core.garbage_collector.GarbageCollector *)

\* cutoff_time = datetime.now(UTC) - timedelta(hours=self.ttl_hours)
CutoffTime(t) == Datetime(t - TtlHours, 0)

cleanup_now ==
    LET cutoff_str == IsoFormat(CutoffTime(now))
        r == DeleteExpired(queue, cutoff_str)
    IN  /\ queue' = r.tbl
        /\ last' = [Call("cleanup_now") EXCEPT
                       !.count = r.rowcount, !.cutoff = cutoff_str]
        /\ UNCHANGED now

----------------------------------------------------------------------------
(* telex.core.database.DatabaseManager *)

\* initialize(): mkdir(exist_ok=True), then _create_tables on a connection
\* of its own, commit, close
initialize ==
    /\ queue' = CreateTableIfNotExists(queue)
    /\ last' = Call("initialize")
    /\ UNCHANGED now

----------------------------------------------------------------------------
(* The clock *)

Tick ==
    /\ now < MaxNow
    /\ now' = now + 1
    /\ UNCHANGED <<queue, last>>

----------------------------------------------------------------------------
(* telex.core.messages *)

\* Field(default=5, ge=1, le=9) on RoutingInfo.priority
RoutingPriorityMin == 1
RoutingPriorityMax == 9
RoutingPriorityDefault == 5

\* What json.loads makes of a line, as far as the schema looks at it: a
\* value that is an object or not, the blocks it has, and routing.priority
\* message_id and timestamp_created are <<>> when the key is absent, else
\* <<text>>, the JSON string under the key
JsonObject(r, c, hp, p) ==
    [type |-> "object", routing |-> r, content |-> c,
     has_priority |-> hp, priority |-> p,
     message_id |-> <<>>, timestamp_created |-> <<>>]
JsonArray ==
    [type |-> "array", routing |-> FALSE, content |-> FALSE,
     has_priority |-> FALSE, priority |-> 0,
     message_id |-> <<>>, timestamp_created |-> <<>>]
NoJson ==
    [type |-> "none", routing |-> FALSE, content |-> FALSE,
     has_priority |-> FALSE, priority |-> 0,
     message_id |-> <<>>, timestamp_created |-> <<>>]

\* a timestamp text that ends in 'Z' (ASCII 90) instead of an offset
ZChar == 90
ZText(l) == <<l, ZChar, 0>>

\* a validator that hands the text to fromisoformat as it came
KeepZ(t) == t

\* v.replace("Z", "+00:00")
ReplaceZ(t) == IF t[2] = ZChar THEN <<t[1], PlusChar, 0>> ELSE t

\* validate_timestamp_created on a string: the datetime, or the ValueError
\* of fromisoformat, which pydantic reports as a validation error
validate_timestamp_created(v) ==
    [raised |-> IsoError(ReplaceZ(v)) # "",
     value |-> FromIsoFormat(ReplaceZ(v))]

\* message_id: UUID = Field(default_factory=uuid4): the UUID of the text
\* supplied, or the one uuid4() draws (fresh) when the key is absent
MessageId(data, fresh) ==
    IF data.message_id = <<>> THEN fresh ELSE UuidParse(data.message_id[1])

\* timestamp_created: the validated text, or datetime.now(timezone.utc)
\* when the key is absent
TimestampCreated(data, t) ==
    IF data.timestamp_created = <<>> THEN NowUtc(t)
    ELSE validate_timestamp_created(data.timestamp_created[1]).value

\* a range check that lets every priority through
PriorityAny(p) == TRUE

\* ge=1, le=9
PriorityInRange(p) == p >= RoutingPriorityMin /\ p <= RoutingPriorityMax

\* a validation that defaults a missing block instead of reporting it
ValidationErrorsDefaulted(data) ==
    IF data.type # "object" THEN {"TelexMessage"}
    ELSE IF data.routing /\ data.has_priority /\ ~PriorityInRange(data.priority)
         THEN {"routing.priority"} ELSE {}

\* The fields named by the ValidationError of TelexMessage.model_validate
ValidationErrors(data) ==
    IF data.type # "object" THEN {"TelexMessage"}
    ELSE (IF data.routing THEN {} ELSE {"routing"})
         \cup (IF data.content THEN {} ELSE {"content"})
         \cup (IF data.routing /\ data.has_priority
                  /\ ~PriorityInRange(data.priority)
               THEN {"routing.priority"} ELSE {})
         \cup (IF data.message_id # <<>> /\ UuidError(data.message_id[1]) # ""
               THEN {"message_id"} ELSE {})
         \cup (IF data.timestamp_created # <<>>
                  /\ validate_timestamp_created(data.timestamp_created[1]).raised
               THEN {"timestamp_created"} ELSE {})

\* The validated message: priority takes its default when omitted.
\* message_id and timestamp_created, which the default factories draw when
\* the keys are absent, are MessageId and TimestampCreated above.
TelexMessage(data) ==
    [routing |-> data.routing, content |-> data.content,
     priority |-> IF data.has_priority THEN data.priority
                  ELSE RoutingPriorityDefault]

\* TelexMessage.model_validate(message_data): the message, or the error
model_validate(data) ==
    LET errs == ValidationErrors(data)
    IN  [raised |-> errs # {}, errors |-> errs,
         message |-> IF errs = {} THEN <<TelexMessage(data)>> ELSE <<>>]

----------------------------------------------------------------------------
(* The lines a peer can send, and the records of connections and tasks *)

ConnIds == {1, 2}
MaxHandled == 2
TaskIds == {1, 2}

WirePriorities == {0, 9, 10}
JsonValues ==
    {JsonArray, JsonObject(FALSE, FALSE, FALSE, 0), JsonObject(FALSE, TRUE, FALSE, 0),
     JsonObject(TRUE, FALSE, FALSE, 0), JsonObject(TRUE, TRUE, FALSE, 0)}
    \cup {JsonObject(TRUE, TRUE, TRUE, p) : p \in WirePriorities}

\* kind: "eof" the peer closed, "oversize" a line beyond the reader's limit,
\* "bad_utf8", "blank" only whitespace, "bad_json" a syntax error,
\* "json_limit" well-formed JSON beyond a limit of the interpreter (an
\* integer of more than 4300 digits, nesting deeper than the recursion
\* limit), "json" a line that json.loads turns into data
Line(k, d) == [kind |-> k, data |-> d]
NoLine == Line("none", NoJson)
WireLines ==
    {Line(k, NoJson) :
        k \in {"eof", "oversize", "bad_utf8", "blank", "bad_json", "json_limit"}}
    \cup {Line("json", d) : d \in JsonValues}

\* st: "free" not yet accepted | "open" | "closed" by the adapter;
\* pc: "readline" awaiting reader.readline() | "handler" awaiting the handler;
\* frames: the error frames written to the peer; handled: the messages the
\* handler was invoked with
FreeConn == [st |-> "free", pc |-> "none", frames |-> <<>>, handled |-> <<>>]

\* What the adapter did last: the connection served, the line it read, the
\* fields its validation named, the exception the handler raised
\* message: for a call of model_validate alone, the message it returned
NNoCall == [op |-> "none", conn |-> 0, line |-> NoLine, errors |-> {}, exc |-> "",
            message |-> <<>>]
NCall(name, c) == [NNoCall EXCEPT !.op = name, !.conn = c]

\* pc of a loop task: "none" not created |
\* "start" created and not yet run | "connect" | "delete" | "commit" | "close"
\* the awaits of _cleanup_expired | "sleep" | "done";
\* cancel: task.cancel() was called and is not yet delivered; cutoff: the
\* cutoff_str of the pass; expired: the rows its DELETE removed in the open
\* transaction; failed: the pass raised; hit: where the cancellation arrived
\* after_failure: the pass under way follows a pass that raised; slept: the
\* loop of the task has been through asyncio.sleep; conn: "open" while a
\* connection that get_connection opened for the task is not closed
NoTask == [pc |-> "none", cancel |-> FALSE, cutoff |-> <<>>, expired |-> {},
           failed |-> FALSE, after_failure |-> FALSE, hit |-> "none",
           slept |-> FALSE, conn |-> "none"]
\* The dedup DatabaseManager among concurrent callers.  connection:
\* self._connection, 0 for None; opened: the connections aiosqlite.connect
\* returned that are not closed; made: how many it returned so far;
\* callers: per caller, pc "idle" | "connect" awaiting aiosqlite.connect in
\* get_connection | "use" awaiting its statements on conn | "close"
\* awaiting self._connection.close() in close()
Callers == {1, 2}
MaxConns == 3
IdleCaller == [pc |-> "idle", op |-> "none", conn |-> 0]
NoPool == [connection |-> 0, opened |-> {}, made |-> 0,
           callers |-> [k \in Callers |-> IdleCaller]]

\* running: the value of _running when the call began
GNoCall == [op |-> "none", running |-> FALSE]
GCall(name) == [GNoCall EXCEPT !.op = name]

----------------------------------------------------------------------------
(* The queue store driven by callers that choose created_at freely *)

Times == {Datetime(l, o) : l \in 0..MaxLoc, o \in Offsets}
Limits == -1..MaxLimit

\* QueuedMessage(created_at=..., status=...) with the other fields defaulted
TimedMessages == {QueuedMessage(i, 0, "empty", c, s) :
                     i \in Uuids, c \in Times, s \in MessageStatus}

Init ==
    /\ now = 0
    /\ queue = {}
    /\ last = NoCall
    /\ seen = {}
    /\ uncommitted = {}
    /\ conn = "open"
    /\ mgr = 1
    /\ dlast = DNoCall
    /\ saved = {}
    /\ pool = NoPool
    /\ enq = [i \in Uuids |-> <<>>]
    /\ server = "none"
    /\ net_running = FALSE
    /\ conns = [c \in ConnIds |-> FreeConn]
    /\ nlast = NNoCall
    /\ gc_running = FALSE
    /\ gc_task = 0
    /\ tasks = [t \in TaskIds |-> NoTask]
    /\ stops = {}
    /\ glast = GNoCall

QEnqueue == \E msg \in TimedMessages : enqueue(msg) /\ UNCHANGED <<dvars, enq, svars>>
QGetNextBatch == \E limit \in Limits : get_next_batch(limit) /\ UNCHANGED <<dvars, enq, svars>>
QDelete == \E i \in Uuids : delete(i) /\ UNCHANGED <<dvars, enq, svars>>
QUpdateStatus ==
    \E i \in Uuids, s \in MessageStatus : update_status(i, s) /\ UNCHANGED <<dvars, enq, svars>>
QGetById == \E i \in Uuids : get_by_id(i) /\ UNCHANGED <<dvars, enq, svars>>
QCleanupNow == cleanup_now /\ UNCHANGED <<dvars, enq, svars>>
QTick == Tick /\ UNCHANGED <<dvars, enq, svars>>

NextQueue ==
    \/ QEnqueue
    \/ QGetNextBatch
    \/ QDelete
    \/ QUpdateStatus
    \/ QGetById
    \/ QCleanupNow
    \/ QTick

Spec == Init /\ [][NextQueue]_vars

----------------------------------------------------------------------------
(* The queue store driven by callers that choose every field of the message *)

Priorities == {0, 10, 11}
\* created_at left to its default, or the same instant written at +02:00
CreatedAts == {NowUtc(now), Datetime(now + 2, 2)}

\* a priority outside PriorityMin..PriorityMax is assigned after construction
\* (the model does not validate assignments)
FullMessages == {QueuedMessage(i, p, pl, c, s) :
                    i \in Uuids, p \in Priorities,
                    pl \in {"list", "tuple", "object"},
                    c \in CreatedAts, s \in {PENDING, SENT}}

\* The history enq after a step of the DAO
TrackEnq ==
    IF qvars' = qvars THEN enq
    ELSE IF last'.op = "enqueue" /\ ~last'.raised
         THEN [enq EXCEPT ![last'.id] = last'.msg]
    ELSE IF last'.op \in {"delete", "update_status"} /\ last'.ok
         THEN [enq EXCEPT ![last'.id] = <<>>]
    ELSE [i \in Uuids |->
             IF \E r \in queue' : r.id = UuidStr(i) THEN enq[i] ELSE <<>>]

AEnqueue ==
    \E msg \in FullMessages :
        enqueue(msg) /\ enq' = TrackEnq /\ UNCHANGED <<dvars, svars>>
AGetNextBatch ==
    \E limit \in Limits :
        get_next_batch(limit) /\ enq' = TrackEnq /\ UNCHANGED <<dvars, svars>>
ADelete == \E i \in Uuids : delete(i) /\ enq' = TrackEnq /\ UNCHANGED <<dvars, svars>>
AUpdateStatus ==
    \E i \in Uuids, s \in MessageStatus :
        update_status(i, s) /\ enq' = TrackEnq /\ UNCHANGED <<dvars, svars>>
AGetById == \E i \in Uuids : get_by_id(i) /\ enq' = TrackEnq /\ UNCHANGED <<dvars, svars>>

NextDao ==
    \/ AEnqueue
    \/ AGetNextBatch
    \/ ADelete
    \/ AUpdateStatus
    \/ AGetById

SpecDao == Init /\ [][NextDao]_vars

----------------------------------------------------------------------------
(* telex.adapters.database: table seen_messages, DatabaseManager and        *)
(* DeduplicationDAO                                                          *)

\* What a statement on the open connection reads: the file and the
\* connection's own open transaction
Visible == seen \cup uncommitted

\* DatabaseManager.get_connection: connects when there is no connection yet
GetConnection(c) == IF c = "none" THEN "open" ELSE c

\* INSERT OR REPLACE: a second save overwrites the record of the first
InsertOrReplace(tbl, row) ==
    [raised |-> FALSE, tbl |-> {r \in tbl : r.id # row.id} \cup {row}]

\* INSERT OR IGNORE INTO seen_messages (id, received_at) VALUES (?, ?):
\* the table after the statement; a taken primary key is ignored, not raised
InsertOrIgnore(tbl, row) ==
    [raised |-> FALSE,
     tbl |-> IF \E r \in tbl : r.id = row.id THEN tbl ELSE tbl \cup {row}]

\* a lookup that forgets its WHERE clause
SelectAnySeen(tbl, message_id) == tbl

\* SELECT 1 FROM seen_messages WHERE id = ? LIMIT 1
SelectSeen(tbl, message_id) == {r \in tbl : r.id = message_id}

\* a commit that never reaches the file
CommitLost(file, view) == file

\* conn.commit(): what the connection sees becomes the content of the file
Commit(file, view) == view

\* The history of first saves, given that save(message_id) returned
FirstSaves(h, message_id) ==
    IF \E e \in h : e.id = message_id
    THEN h
    ELSE h \cup {[id |-> message_id, at |-> now, mgr |-> mgr]}

initialize_db ==
    /\ conn' = GetConnection(conn)
    \* CREATE TABLE / INDEX IF NOT EXISTS on the table that exists, then commit
    /\ seen' = Commit(seen, CreateTableIfNotExists(Visible))
    /\ uncommitted' = Visible \ seen'
    /\ dlast' = DCall("initialize_db")
    /\ UNCHANGED <<mgr, saved>>

exists(message_id) ==
    /\ conn' = GetConnection(conn)
    /\ dlast' = [DCall("exists") EXCEPT
                    !.id = message_id,
                    !.ok = SelectSeen(Visible, message_id) # {}]
    /\ UNCHANGED <<seen, uncommitted, mgr, saved>>

\* an exception of the INSERT or the commit is logged and raised again
save(message_id) ==
    LET received_at == IsoFormat(NowUtc(now))
        r == InsertOrIgnore(Visible, [id |-> message_id,
                                      received_at |-> received_at])
    IN  /\ conn' = GetConnection(conn)
        /\ IF r.raised
           THEN /\ dlast' = [DCall("save") EXCEPT !.id = message_id, !.raised = TRUE]
                /\ UNCHANGED <<seen, uncommitted, saved>>
           ELSE /\ seen' = Commit(seen, r.tbl)
                /\ uncommitted' = r.tbl \ seen'
                /\ dlast' = [DCall("save") EXCEPT !.id = message_id]
                /\ saved' = FirstSaves(saved, message_id)
        /\ UNCHANGED mgr

\* DatabaseManager.close: closing the connection drops its open transaction
close ==
    /\ conn' = "none"
    /\ uncommitted' = IF conn = "none" THEN uncommitted ELSE {}
    /\ dlast' = DCall("close")
    /\ UNCHANGED <<seen, mgr, saved>>

\* DatabaseManager(db_path) on the same file, after the previous manager was
\* closed or its process ended
Reopen ==
    /\ mgr < MaxManagers
    /\ mgr' = mgr + 1
    /\ conn' = "none"
    /\ uncommitted' = {}
    /\ dlast' = DCall("reopen")
    /\ UNCHANGED <<seen, saved>>

DInitializeDb == initialize_db /\ UNCHANGED <<now, qvars, pool, enq, svars>>
DExists == \E i \in MessageIds : exists(i) /\ UNCHANGED <<now, qvars, pool, enq, svars>>
DSave == \E i \in MessageIds : save(i) /\ UNCHANGED <<now, qvars, pool, enq, svars>>
DClose == close /\ UNCHANGED <<now, qvars, pool, enq, svars>>
DReopen == Reopen /\ UNCHANGED <<now, qvars, pool, enq, svars>>
DTick == Tick /\ UNCHANGED <<dvars, enq, svars>>

NextDedup ==
    \/ DInitializeDb
    \/ DExists
    \/ DSave
    \/ DClose
    \/ DReopen
    \/ DTick

SpecDedup == Init /\ [][NextDedup]_vars

----------------------------------------------------------------------------
(* The queue store with rows written to the database file by other hands *)

MaxRows == 2

\* Rows as the columns allow them: id, payload, created_at and status are
\* TEXT columns whose content the table does not constrain
RawRows ==
    {[id |-> i, priority |-> 0, payload |-> pl, created_at |-> <<l, sg, 0>>,
      status |-> st] :
        i \in {UuidStr(u) : u \in Uuids} \cup {NotUuid, NullId},
        pl \in {"{}", MalformedJson, DeepJson},
        l \in 0..MaxLoc, sg \in {PlusChar, QuestionChar},
        st \in {PENDING, "BOGUS"}}

\* INSERT by a writer that is not the DAO: the CHECK and the primary key
\* hold as for any INSERT, a NULL key is never taken
RawInsert(row) ==
    /\ Cardinality(queue) < MaxRows
    /\ queue' = IF row.id = NullId THEN queue \cup {row} ELSE Insert(queue, row).tbl
    /\ last' = [Call("raw_insert") EXCEPT !.ok = queue' # queue]
    /\ UNCHANGED now

SoundMessages ==
    {QueuedMessage(i, 0, "empty", Datetime(l, 0), PENDING) :
        i \in Uuids, l \in 0..MaxLoc}

KRawInsert == \E row \in RawRows : RawInsert(row) /\ UNCHANGED <<dvars, enq, svars>>
KEnqueue ==
    /\ Cardinality(queue) < MaxRows
    /\ \E msg \in SoundMessages : enqueue(msg)
    /\ UNCHANGED <<dvars, enq, svars>>
KGetNextBatch ==
    \E limit \in Limits : get_next_batch(limit) /\ UNCHANGED <<dvars, enq, svars>>
KGetById == \E i \in Uuids : get_by_id(i) /\ UNCHANGED <<dvars, enq, svars>>
KDelete == \E i \in Uuids : delete(i) /\ UNCHANGED <<dvars, enq, svars>>

NextCorrupt ==
    \/ KRawInsert
    \/ KEnqueue
    \/ KGetNextBatch
    \/ KGetById
    \/ KDelete

SpecCorrupt == Init /\ [][NextCorrupt]_vars

----------------------------------------------------------------------------
(* Both stores, initialised again and again while they fill *)

InitMessages == {QueuedMessage(i, 0, "empty", NowUtc(now), PENDING) : i \in Uuids}

IInitialize == initialize /\ UNCHANGED <<dvars, enq, svars>>
IEnqueue == \E msg \in InitMessages : enqueue(msg) /\ UNCHANGED <<dvars, enq, svars>>

NextInit ==
    \/ IInitialize
    \/ IEnqueue
    \/ DInitializeDb
    \/ DSave
    \/ DClose
    \/ DReopen

SpecInit == Init /\ [][NextInit]_vars

----------------------------------------------------------------------------
(* telex.adapters.network.AsyncTCPNetworkAdapter                            *)
(* A handler is configured (message_handler is not None).                   *)

\* reader.readline(): b"" at end of stream; a line beyond the limit of the
\* StreamReader raises ValueError
Readline(line) == [raised |-> line.kind = "oversize", eof |-> line.kind = "eof"]

\* line.decode("utf-8").strip()
\* a decode that does not trim: a line of whitespace goes on to json.loads
DecodeNoStrip(line) ==
    [raised |-> line.kind = "bad_utf8", empty |-> FALSE]

\* line.decode("utf-8").strip()
DecodeStrip(line) ==
    [raised |-> line.kind = "bad_utf8", empty |-> line.kind = "blank"]

\* json.loads(line_str): raises JSONDecodeError on a syntax error, and
\* ValueError or RecursionError, which are not JSONDecodeError, beyond the
\* interpreter's limits
LoadsLine(line) ==
    [raised |-> CASE line.kind = "bad_json" -> "JSONDecodeError"
                  [] line.kind = "json_limit" -> "ValueError"
                  [] OTHER -> "",
     data |-> line.data]

\* _send_error: one frame {"error": ...}\n; fields are the fields that the
\* text of a ValidationError names
SendError(cn, message, fields) ==
    [cn EXCEPT !.frames = Append(@, [error |-> message, fields |-> fields])]

\* writer.close(); await writer.wait_closed()
CloseWriter(cn) == [cn EXCEPT !.st = "closed", !.pc = "none"]

\* while self._running: back to readline, or out of the loop to the finally
Continue(cn) ==
    IF net_running THEN [cn EXCEPT !.pc = "readline"] ELSE CloseWriter(cn)

\* a task whose failure takes the other open connections down with it
ServeAndDropOthers(cs, c, cn) ==
    [d \in ConnIds |->
        IF d = c THEN cn
        ELSE IF cn.st = "closed" /\ cs[d].st = "open" THEN CloseWriter(cs[d])
        ELSE cs[d]]

\* The task of connection c works on its own reader and writer only
Serve(cs, c, cn) == [cs EXCEPT ![c] = cn]

\* an error frame after which the loop reads on
SendErrorAndReadOn(cn, message, fields) == SendError(cn, message, fields)

\* _send_error, writer.close(), break
Reject(cn, message, fields) == CloseWriter(SendError(cn, message, fields))

\* a loop that starts the handler and reads on without awaiting it
HandleLineUnawaited(cn, line) ==
    LET v == model_validate(LoadsLine(line).data)
    IN  IF line.kind = "json" /\ ~v.raised
        THEN [cn EXCEPT !.handled = Append(@, v.message[1])]
        ELSE CloseWriter(cn)

\* One pass of the loop of _handle_client, from the return of readline
HandleLine(cn, line) ==
    LET rd == Readline(line)
        dec == DecodeStrip(line)
        js == LoadsLine(line)
        v == model_validate(js.data)
    IN  IF rd.raised THEN CloseWriter(cn)
        ELSE IF rd.eof THEN CloseWriter(cn)
        ELSE IF dec.raised THEN Reject(cn, "Invalid UTF-8 encoding", {})
        ELSE IF dec.empty THEN Continue(cn)
        ELSE IF js.raised = "JSONDecodeError" THEN Reject(cn, "Malformed JSON", {})
        ELSE IF js.raised # "" THEN CloseWriter(cn)
        ELSE IF v.raised THEN Reject(cn, "Validation error", v.errors)
        ELSE [cn EXCEPT !.pc = "handler", !.handled = Append(@, v.message[1])]

\* asyncio.start_server: the socket listens before start() goes on
NetStartServer ==
    /\ server \in {"none", "closed"}
    /\ server' = "starting"
    /\ nlast' = NCall("start_server", 0)
    /\ UNCHANGED <<net_running, conns>>

\* start(), after the await: self.server = ..., self._running = True
NetStart ==
    /\ server = "starting"
    /\ server' = "listening"
    /\ net_running' = TRUE
    /\ nlast' = NCall("start", 0)
    /\ UNCHANGED conns

\* stop(): self.server.close()
NetStopClose ==
    /\ server = "listening"
    /\ server' = "closing"
    /\ nlast' = NCall("server_close", 0)
    /\ UNCHANGED <<net_running, conns>>

\* stop(), after await self.server.wait_closed(): self._running = False
NetStop ==
    /\ server = "closing"
    /\ server' = "closed"
    /\ net_running' = FALSE
    /\ nlast' = NCall("stop", 0)
    /\ UNCHANGED conns

\* A connection is accepted and _handle_client starts on it
Accept(c) ==
    /\ server \in {"starting", "listening"}
    /\ conns[c].st = "free"
    /\ conns' = Serve(conns, c, Continue([FreeConn EXCEPT !.st = "open"]))
    /\ nlast' = NCall("accept", c)
    /\ UNCHANGED <<server, net_running>>

\* a server that reads a connection only when no connection before it is
\* waiting for bytes
ReadLineInTurn(c, line) ==
    /\ \A d \in ConnIds : d < c => ~(conns[d].st = "open" /\ conns[d].pc = "readline")
    /\ conns[c].st = "open"
    /\ conns[c].pc = "readline"
    /\ Len(conns[c].handled) < MaxHandled
    /\ conns' = Serve(conns, c, HandleLine(conns[c], line))
    /\ nlast' = [NCall("readline", c) EXCEPT
                    !.line = line,
                    !.errors = IF line.kind = "json"
                               THEN model_validate(line.data).errors ELSE {}]
    /\ UNCHANGED <<server, net_running>>

\* _handle_client, one pass: the task of connection c is woken by a line
ReadLine(c, line) ==
    /\ conns[c].st = "open"
    /\ conns[c].pc = "readline"
    /\ Len(conns[c].handled) < MaxHandled
    /\ conns' = Serve(conns, c, HandleLine(conns[c], line))
    /\ nlast' = [NCall("readline", c) EXCEPT
                    !.line = line,
                    !.errors = IF line.kind = "json"
                               THEN model_validate(line.data).errors ELSE {}]
    /\ UNCHANGED <<server, net_running>>

\* await self.message_handler(message) returns
HandlerReturns(c) ==
    /\ conns[c].st = "open"
    /\ conns[c].pc = "handler"
    /\ conns' = Serve(conns, c, Continue(conns[c]))
    /\ nlast' = NCall("handler_returned", c)
    /\ UNCHANGED <<server, net_running>>

HandlerExceptions == {"Exception", "JSONDecodeError", "ValidationError"}

\* await self.message_handler(message) raises: the except clauses of the
\* loop body apply to it as they do to json.loads and model_validate
HandlerRaises(c, exc) ==
    /\ conns[c].st = "open"
    /\ conns[c].pc = "handler"
    /\ conns' = Serve(conns, c,
                      CASE exc = "JSONDecodeError" ->
                               Reject(conns[c], "Malformed JSON", {})
                        [] exc = "ValidationError" ->
                               Reject(conns[c], "Validation error", {})
                        [] OTHER -> CloseWriter(conns[c]))
    /\ nlast' = [NCall("handler_raised", c) EXCEPT !.exc = exc]
    /\ UNCHANGED <<server, net_running>>

NStartServer == NetStartServer /\ UNCHANGED <<now, qvars, dvars, enq, gvars>>
NStart == NetStart /\ UNCHANGED <<now, qvars, dvars, enq, gvars>>
NStopClose == NetStopClose /\ UNCHANGED <<now, qvars, dvars, enq, gvars>>
NStop == NetStop /\ UNCHANGED <<now, qvars, dvars, enq, gvars>>
NAccept == \E c \in ConnIds : Accept(c) /\ UNCHANGED <<now, qvars, dvars, enq, gvars>>
NReadLine ==
    \E c \in ConnIds, line \in WireLines :
        ReadLine(c, line) /\ UNCHANGED <<now, qvars, dvars, enq, gvars>>
NHandlerReturns ==
    \E c \in ConnIds : HandlerReturns(c) /\ UNCHANGED <<now, qvars, dvars, enq, gvars>>
NHandlerRaises ==
    \E c \in ConnIds, exc \in HandlerExceptions :
        HandlerRaises(c, exc) /\ UNCHANGED <<now, qvars, dvars, enq, gvars>>

NextNet ==
    \/ NStartServer
    \/ NStart
    \/ NStopClose
    \/ NStop
    \/ NAccept
    \/ NReadLine
    \/ NHandlerReturns
    \/ NHandlerRaises

SpecNet == Init /\ [][NextNet]_vars

----------------------------------------------------------------------------
(* telex.core.garbage_collector.GarbageCollector: start, stop and the loop   *)

\* an except clause that lets the error end the loop
PropagateException(tk) ==
    [tk EXCEPT !.pc = "done", !.failed = TRUE, !.after_failure = FALSE,
               !.cutoff = <<>>, !.expired = {}]

\* except Exception in _run_loop: the error is logged, the loop goes on to
\* its sleep
CatchException(tk) ==
    [tk EXCEPT !.pc = "sleep", !.failed = TRUE, !.after_failure = FALSE,
               !.cutoff = <<>>, !.expired = {}, !.slept = TRUE]

\* a loop that waits for the interval before its first pass
SleepBeforePass(tk) ==
    IF tk.pc = "start"
    THEN [tk EXCEPT !.pc = "sleep", !.slept = TRUE]
    ELSE IF gc_running
         THEN [tk EXCEPT !.pc = "connect", !.cutoff = IsoFormat(CutoffTime(now)),
                         !.expired = {}, !.failed = FALSE, !.after_failure = tk.failed]
         ELSE [tk EXCEPT !.pc = "done", !.failed = FALSE, !.slept = FALSE]

\* while self._running: the next pass computes its cutoff and awaits the
\* connection; otherwise the loop, and the task, end
LoopCheck(tk) ==
    IF gc_running
    THEN [tk EXCEPT !.pc = "connect", !.cutoff = IsoFormat(CutoffTime(now)),
                    !.expired = {}, !.failed = FALSE, !.after_failure = tk.failed]
    ELSE [tk EXCEPT !.pc = "done", !.failed = FALSE, !.slept = FALSE]

\* the rows of the table while the DELETE of a pass is not committed are
\* locked against other writers
WriteLocked == \E t \in TaskIds : tasks[t].pc = "commit"

\* a task that runs the loop and that no cancel() has reached
Live(ts, t) == ts[t].pc \notin {"none", "done"} /\ ~ts[t].cancel

start ==
    IF gc_running
    THEN /\ glast' = [GCall("start") EXCEPT !.running = TRUE]
         /\ UNCHANGED <<gc_running, gc_task, tasks, stops>>
    ELSE \E t \in TaskIds :
            /\ tasks[t].pc = "none"
            /\ \A u \in TaskIds : u < t => tasks[u].pc # "none"
            /\ gc_running' = TRUE
            /\ gc_task' = t
            /\ tasks' = [tasks EXCEPT ![t] = [NoTask EXCEPT !.pc = "start"]]
            /\ glast' = GCall("start")
            /\ UNCHANGED stops

\* stop() up to its await: a stopped collector returns at once; otherwise
\* _running is cleared, and the task, if _task is set, is cancelled and awaited
stop ==
    IF ~gc_running
    THEN /\ glast' = GCall("stop")
         /\ UNCHANGED <<gc_running, gc_task, tasks, stops>>
    ELSE /\ gc_running' = FALSE
         /\ IF gc_task # 0
            THEN /\ tasks' = [tasks EXCEPT
                                 ![gc_task].cancel = tasks[gc_task].pc # "done"]
                 /\ stops' = stops \cup {gc_task}
                 /\ glast' = [GCall("stop_await") EXCEPT !.running = TRUE]
            ELSE /\ glast' = [GCall("stop") EXCEPT !.running = TRUE]
                 /\ UNCHANGED <<tasks, stops>>
         /\ UNCHANGED gc_task

\* a stop() that cancels the task and does not wait for it
TaskCancelSent(tk) == TRUE

\* await self._task returns (or raises CancelledError) once the task ended
TaskEnded(tk) == tk.pc = "done"

\* stop() after await self._task: self._task = None
StopReturns(t) ==
    /\ t \in stops
    /\ TaskEnded(tasks[t])
    /\ gc_task' = 0
    /\ stops' = stops \ {t}
    /\ glast' = [GCall("stop") EXCEPT !.running = TRUE]
    /\ UNCHANGED <<gc_running, tasks>>

\* _run_loop: the task runs for the first time, or its sleep is over
LoopNext(t) ==
    /\ tasks[t].pc \in {"start", "sleep"}
    /\ ~tasks[t].cancel
    /\ tasks' = [tasks EXCEPT ![t] = LoopCheck(tasks[t])]
    /\ UNCHANGED <<queue, gc_running, gc_task, stops, glast>>

\* _cleanup_expired: await self.db_manager.get_connection()
PassConnect(t, ok) ==
    /\ tasks[t].pc = "connect"
    /\ ~tasks[t].cancel
    /\ tasks' = [tasks EXCEPT ![t] =
                    IF ok THEN [@ EXCEPT !.pc = "delete", !.conn = "open"]
                    ELSE CatchException(@)]
    /\ UNCHANGED <<queue, gc_running, gc_task, stops, glast>>

\* await conn.execute(DELETE ...): the rows go in the open transaction; an
\* error leaves for the finally
PassDelete(t, ok) ==
    /\ tasks[t].pc = "delete"
    /\ ~tasks[t].cancel
    /\ ~WriteLocked
    /\ tasks' = [tasks EXCEPT ![t] =
                    IF ok
                    THEN [@ EXCEPT !.pc = "commit",
                                   !.expired = queue \ DeleteExpired(queue, tasks[t].cutoff).tbl]
                    ELSE [@ EXCEPT !.pc = "close", !.failed = TRUE]]
    /\ UNCHANGED <<queue, gc_running, gc_task, stops, glast>>

\* await conn.commit()
PassCommit(t, ok) ==
    /\ tasks[t].pc = "commit"
    /\ ~tasks[t].cancel
    /\ queue' = IF ok THEN queue \ tasks[t].expired ELSE queue
    /\ tasks' = [tasks EXCEPT ![t] =
                    IF ok THEN [@ EXCEPT !.pc = "close"]
                    ELSE [@ EXCEPT !.pc = "close", !.failed = TRUE, !.expired = {}]]
    /\ UNCHANGED <<gc_running, gc_task, stops, glast>>

\* finally: await conn.close(); then the sleep of the loop, through the
\* except clause when the pass raised
PassClose(t, ok) ==
    /\ tasks[t].pc = "close"
    /\ ~tasks[t].cancel
    /\ tasks' = [tasks EXCEPT ![t] =
                    IF ok /\ ~@.failed
                    THEN [@ EXCEPT !.pc = "sleep", !.after_failure = FALSE,
                                   !.cutoff = <<>>, !.expired = {}, !.slept = TRUE,
                                   !.conn = "none"]
                    ELSE [CatchException(@) EXCEPT !.conn = "none"]]
    /\ UNCHANGED <<queue, gc_running, gc_task, stops, glast>>

\* CancelledError arrives at the await the task is suspended in.  In the
\* sleep it is caught and the loop breaks.  In a pass it is not an Exception
\* and leaves through the finally: a DELETE that is not committed is rolled
\* back by conn.close(); a commit already handed to the connection's thread
\* is applied or not (applied).  In the await of get_connection, which
\* stands before the try, it leaves without a finally: the connection that
\* the connection's thread was asked for is opened or not (applied), and the
\* task holds no reference to it.
ConnAfterCancel(tk, applied) ==
    IF tk.pc = "connect" /\ applied THEN "open" ELSE "none"

Cancelled(t, applied) ==
    /\ tasks[t].cancel
    /\ tasks[t].pc \notin {"none", "done"}
    /\ queue' = IF tasks[t].pc = "commit" /\ applied
                THEN queue \ tasks[t].expired ELSE queue
    /\ tasks' = [tasks EXCEPT ![t] =
                    [@ EXCEPT !.pc = "done", !.cancel = FALSE, !.expired = {},
                              !.cutoff = <<>>, !.failed = FALSE,
                              !.after_failure = FALSE, !.slept = FALSE,
                              !.conn = ConnAfterCancel(tasks[t], applied),
                              !.hit = IF tasks[t].pc = "commit" /\ applied
                                      THEN "committed" ELSE tasks[t].pc]]
    /\ UNCHANGED <<gc_running, gc_task, stops, glast>>

\* rows enqueued with created_at left to its default, or set to a time
\* that has expired already
GcMessages ==
    {QueuedMessage(i, 0, "empty", c, PENDING) :
        i \in Uuids, c \in {NowUtc(now), NowUtc(now - TtlHours - 1)}}

GStart == start /\ UNCHANGED <<now, qvars, dvars, enq, nvars>>
GStop == stop /\ UNCHANGED <<now, qvars, dvars, enq, nvars>>
GStopReturns ==
    \E t \in TaskIds : StopReturns(t) /\ UNCHANGED <<now, qvars, dvars, enq, nvars>>
GLoopNext ==
    \E t \in TaskIds : LoopNext(t) /\ UNCHANGED <<now, last, dvars, enq, nvars>>
GPassConnect ==
    \E t \in TaskIds, ok \in BOOLEAN :
        PassConnect(t, ok) /\ UNCHANGED <<now, last, dvars, enq, nvars>>
GPassDelete ==
    \E t \in TaskIds, ok \in BOOLEAN :
        PassDelete(t, ok) /\ UNCHANGED <<now, last, dvars, enq, nvars>>
GPassCommit ==
    \E t \in TaskIds, ok \in BOOLEAN :
        PassCommit(t, ok) /\ UNCHANGED <<now, last, dvars, enq, nvars>>
GPassClose ==
    \E t \in TaskIds, ok \in BOOLEAN :
        PassClose(t, ok) /\ UNCHANGED <<now, last, dvars, enq, nvars>>
GCancelled ==
    \E t \in TaskIds, applied \in BOOLEAN :
        Cancelled(t, applied) /\ UNCHANGED <<now, last, dvars, enq, nvars>>
GEnqueue ==
    /\ ~WriteLocked
    /\ \E msg \in GcMessages : enqueue(msg)
    /\ UNCHANGED <<dvars, enq, svars>>
\* a manual pass that also stops the collector
GCleanupNowAndStop ==
    /\ ~WriteLocked
    /\ cleanup_now
    /\ glast' = [GCall("cleanup_now") EXCEPT !.running = gc_running]
    /\ gc_running' = FALSE
    /\ UNCHANGED <<gc_task, tasks, stops, dvars, enq, nvars>>
\* cleanup_now() on the collector, whose loop may be running: its DELETE
\* waits while the DELETE of a periodic pass is not committed
GCleanupNow ==
    /\ ~WriteLocked
    /\ cleanup_now
    /\ glast' = [GCall("cleanup_now") EXCEPT !.running = gc_running]
    /\ UNCHANGED <<gc_running, gc_task, tasks, stops, dvars, enq, nvars>>

NextGc ==
    \/ GStart
    \/ GStop
    \/ GStopReturns
    \/ GLoopNext
    \/ GPassConnect
    \/ GPassDelete
    \/ GPassCommit
    \/ GPassClose
    \/ GCancelled
    \/ GEnqueue
    \/ GCleanupNow

SpecGc == Init /\ [][NextGc]_vars

\* The collector with its loop task scheduled fairly and a store that
\* answers, and with rows that are written in a local time zone: a message
\* created now by a caller whose clock is TtlHours + 1 hours behind UTC
ZonedMessages ==
    {QueuedMessage(i, 0, "empty", Datetime(now - TtlHours - 1, -(TtlHours + 1)), PENDING) :
        i \in Uuids}

GEnqueueZoned ==
    /\ ~WriteLocked
    /\ \E msg \in ZonedMessages : enqueue(msg)
    /\ UNCHANGED <<dvars, enq, svars>>

\* the loop task t is resumed when its sleep is over
LoopStep(t) == LoopNext(t) /\ UNCHANGED <<now, last, dvars, enq, nvars>>
\* an await of the pass of task t to which the store answers
PassStep(t, pc) ==
    /\ tasks[t].pc = pc
    /\ \/ PassConnect(t, TRUE)
       \/ PassDelete(t, TRUE)
       \/ PassCommit(t, TRUE)
       \/ PassClose(t, TRUE)
    /\ UNCHANGED <<now, last, dvars, enq, nvars>>
\* a cancellation is delivered to the task t
CancelStep(t) ==
    /\ \E applied \in BOOLEAN : Cancelled(t, applied)
    /\ UNCHANGED <<now, last, dvars, enq, nvars>>
\* the event loop resumes a task that can run; the store does not fail
\* for ever
Fairness ==
    \A t \in TaskIds :
        /\ WF_vars(LoopStep(t))
        /\ WF_vars(CancelStep(t))
        /\ \A pc \in {"connect", "delete", "commit", "close"} :
              SF_vars(PassStep(t, pc))

NextReap ==
    \/ GStart
    \/ GStop
    \/ GStopReturns
    \/ GLoopNext
    \/ GPassConnect
    \/ GPassDelete
    \/ GPassCommit
    \/ GPassClose
    \/ GCancelled
    \/ GEnqueue
    \/ GEnqueueZoned

SpecReap == Init /\ [][NextReap]_vars /\ Fairness

----------------------------------------------------------------------------
(* telex.adapters.database.DatabaseManager.get_connection and close among    *)
(* callers that run concurrently on one event loop                           *)

DedupOps == {"exists", "save", "initialize_db"}

\* exists, save or initialize_db begins: conn = await
\* self.db_manager.get_connection() runs up to its first await, the test
\* 'if self._connection is None' included; with a connection set it is
\* returned at once and the caller awaits its statements
CallBegins(k, op) ==
    /\ pool.callers[k].pc = "idle"
    /\ pool' = [pool EXCEPT !.callers[k] =
                    IF pool.connection = 0
                    THEN [pc |-> "connect", op |-> op, conn |-> 0]
                    ELSE [pc |-> "use", op |-> op, conn |-> pool.connection]]

\* await aiosqlite.connect(...) returns: self._connection = the new connection
Connected(k) ==
    /\ pool.callers[k].pc = "connect"
    /\ pool.made < MaxConns
    /\ LET c == pool.made + 1
       IN  pool' = [pool EXCEPT !.made = c,
                                !.opened = @ \cup {c},
                                !.connection = c,
                                !.callers[k].pc = "use",
                                !.callers[k].conn = c]

\* the statements of the call are done, on an open connection or with the
\* error of a closed one: the call returns or raises
CallEnds(k) ==
    /\ pool.callers[k].pc = "use"
    /\ pool' = [pool EXCEPT !.callers[k] = IdleCaller]

\* close() up to its await: nothing to do without a connection
CloseBegins(k) ==
    /\ pool.callers[k].pc = "idle"
    /\ pool.connection # 0
    /\ pool' = [pool EXCEPT !.callers[k] =
                    [pc |-> "close", op |-> "close", conn |-> pool.connection]]

\* await self._connection.close() returns: self._connection = None
CloseEnds(k) ==
    /\ pool.callers[k].pc = "close"
    /\ pool' = [pool EXCEPT !.opened = @ \ {pool.callers[k].conn},
                            !.connection = 0,
                            !.callers[k] = IdleCaller]

PCallBegins ==
    \E k \in Callers, op \in DedupOps :
        CallBegins(k, op)
        /\ UNCHANGED <<now, qvars, seen, uncommitted, conn, mgr, dlast, saved, enq, svars>>
PConnected ==
    \E k \in Callers :
        Connected(k)
        /\ UNCHANGED <<now, qvars, seen, uncommitted, conn, mgr, dlast, saved, enq, svars>>
PCallEnds ==
    \E k \in Callers :
        CallEnds(k)
        /\ UNCHANGED <<now, qvars, seen, uncommitted, conn, mgr, dlast, saved, enq, svars>>
PCloseBegins ==
    \E k \in Callers :
        CloseBegins(k)
        /\ UNCHANGED <<now, qvars, seen, uncommitted, conn, mgr, dlast, saved, enq, svars>>
PCloseEnds ==
    \E k \in Callers :
        CloseEnds(k)
        /\ UNCHANGED <<now, qvars, seen, uncommitted, conn, mgr, dlast, saved, enq, svars>>

NextPool ==
    \/ PCallBegins
    \/ PConnected
    \/ PCallEnds
    \/ PCloseBegins
    \/ PCloseEnds

SpecPool == Init /\ [][NextPool]_vars

----------------------------------------------------------------------------
(* A consumer that polls the queue and deletes what it is returned, beside   *)
(* writers that leave rows which do not deserialize                          *)

\* the limit the consumer polls with
ConsumerLimit == 1

\* PENDING rows that do not parse and whose error the except clause of
\* get_next_batch names: they are logged and skipped
SkippedRows ==
    {r \in RawRows : r.status = PENDING /\ ~Parses(r) /\ Caught(DeserializeError(r))}

\* enqueue of a message whose created_at, taken from the clock, is later
\* than that of every row stored
EnqueueLater(msg) ==
    /\ Cardinality(queue) < MaxRows
    /\ \A r \in queue : TextLess(r.created_at, IsoFormat(msg.created_at))
    /\ enqueue(msg)

\* One round of the consumer: batch = await dao.get_next_batch(limit), then
\* await dao.delete(m.id) for every message m of the batch
Consume(limit) ==
    \E rows \in SelectPending(queue, PENDING, limit) :
        LET batch == IF BatchError(rows) = "" THEN ParseRows(rows) ELSE <<>>
            ids == {UuidStr(batch[i].id) : i \in 1..Len(batch)}
        IN  /\ last' = [Call("get_next_batch") EXCEPT
                           !.limit = limit,
                           !.raised = BatchError(rows) # "",
                           !.err = BatchError(rows),
                           !.batch = batch]
            /\ queue' = {r \in queue : r.id \notin ids}
            /\ UNCHANGED now

CRawInsert == \E row \in SkippedRows : RawInsert(row) /\ UNCHANGED <<dvars, enq, svars>>
CEnqueue == \E msg \in SoundMessages : EnqueueLater(msg) /\ UNCHANGED <<dvars, enq, svars>>
CConsume == Consume(ConsumerLimit) /\ UNCHANGED <<dvars, enq, svars>>

NextConsume ==
    \/ CRawInsert
    \/ CEnqueue
    \/ CConsume

\* the consumer goes on polling
SpecConsume == Init /\ [][NextConsume]_vars /\ WF_vars(CConsume)

----------------------------------------------------------------------------
(* TelexMessage.model_validate on objects that carry message_id and          *)
(* timestamp_created                                                         *)

\* what a peer can put under "message_id" and "timestamp_created"
IdTexts == {<<>>, <<NotUuid>>} \cup {<<UuidStr(u)>> : u \in Uuids}
TimestampTexts ==
    {<<>>, <<(<<0, QuestionChar, 0>>)>>}
    \cup {<<IsoFormat(c)>> : c \in Times}
    \cup {<<ZText(l)>> : l \in 0..MaxLoc}
MessageObjects ==
    {[d EXCEPT !.message_id = i, !.timestamp_created = ts] :
        d \in {JsonObject(TRUE, TRUE, FALSE, 0), JsonObject(TRUE, TRUE, TRUE, 9),
               JsonObject(TRUE, TRUE, TRUE, 10), JsonObject(TRUE, FALSE, FALSE, 0)},
        i \in IdTexts, ts \in TimestampTexts}

\* TelexMessage.model_validate(data) at time now, uuid4() drawing fresh
ModelValidate(data, fresh) ==
    LET v == model_validate(data)
    IN  /\ nlast' = [NCall("model_validate", 0) EXCEPT
                        !.line = Line("json", data),
                        !.errors = v.errors,
                        !.message =
                            IF v.raised THEN <<>>
                            ELSE <<[message_id |-> MessageId(data, fresh),
                                    timestamp_created |-> TimestampCreated(data, now),
                                    body |-> v.message[1]]>>]
        /\ UNCHANGED <<server, net_running, conns>>

MValidate ==
    \E data \in MessageObjects, fresh \in Uuids :
        ModelValidate(data, fresh) /\ UNCHANGED <<now, qvars, dvars, enq, gvars>>

NextMsg ==
    \/ MValidate
    \/ QTick

SpecMsg == Init /\ [][NextMsg]_vars

----------------------------------------------------------------------------
(* Vocabulary of the properties *)

\* This step is a call of operation name that returned (last is its outcome)
Called(name) == last'.op = name /\ qvars' # qvars

\* The stored rows as the messages they hold
Stored(tbl) == {FromRow(r) : r \in tbl}
PendingStored(tbl) == {m \in Stored(tbl) : m.status = PENDING}
Min(a, b) == IF a < b THEN a ELSE b
InBatch(b) == {b[i] : i \in 1..Len(b)}

----------------------------------------------------------------------------
(* C1: get_next_batch(limit), limit >= 0, returns exactly the                *)
(* min(limit, number of PENDING rows) PENDING rows with the smallest         *)
(* created_at, oldest first; every PENDING row beyond the limit is excluded. *)
(* Stated on the instants the created_at values denote.                      *)
C1_OldestFirstBatch ==
    (last.op = "get_next_batch" /\ last.limit >= 0) =>
        LET b == last.batch
            P == PendingStored(queue)
        IN  /\ Len(b) = Min(last.limit, Cardinality(P))
            /\ InBatch(b) \subseteq P
            /\ Cardinality(InBatch(b)) = Len(b)
            /\ \A i, j \in 1..Len(b) :
                  i < j => ~DtLess(b[j].created_at, b[i].created_at)
            /\ \A m \in P \ InBatch(b) : \A i \in 1..Len(b) :
                  ~DtLess(m.created_at, b[i].created_at)

(* C2: every row returned by get_next_batch has status PENDING, also when    *)
(* rows with another status are older than every PENDING row.                *)
C2_OnlyPendingReturned ==
    last.op = "get_next_batch" =>
        \A i \in 1..Len(last.batch) : last.batch[i].status = PENDING

\* a non-empty batch was returned while a row that is not PENDING is older
\* than every PENDING row
C2_Witness ==
    /\ last.op = "get_next_batch"
    /\ Len(last.batch) > 0
    /\ \E m \in Stored(queue) :
          /\ m.status # PENDING
          /\ \A p \in PendingStored(queue) : DtLess(m.created_at, p.created_at)

(* C3: one cleanup pass with cutoff = now_utc - ttl_hours deletes exactly    *)
(* the rows whose created_at is strictly earlier than the cutoff, retains    *)
(* every other row (one whose created_at equals the cutoff included), and    *)
(* cleanup_now returns the number of rows it removed.                        *)
C3_CleanupExactlyExpired ==
    [][Called("cleanup_now") =>
          /\ queue' = {r \in queue :
                          ~DtLess(FromIsoFormat(r.created_at), CutoffTime(now))}
          /\ last'.count = Cardinality(queue \ queue')]_vars

(* C8: delete(id) returns true exactly when a row with that id was present   *)
(* and is removed by the call; delete of an absent id returns false, does    *)
(* not raise and leaves every row unchanged, so that a second delete(id)     *)
(* after a successful one returns false.                                     *)
C8_DeleteStep ==
    Called("delete") =>
        LET idText == UuidStr(last'.id)
            present == \E r \in queue : r.id = idText
        IN  /\ ~last'.raised
            /\ last'.ok <=> present
            /\ present => queue' = {r \in queue : r.id # idText} /\ queue' # queue
            /\ ~present => queue' = queue
C8_DeleteReportsRemoval ==
    /\ [][C8_DeleteStep]_vars
    /\ [](last.op = "delete" => \A r \in queue : r.id # UuidStr(last.id))

\* delete of an absent id returned false while the store holds other rows
C8_Witness ==
    /\ last.op = "delete"
    /\ ~last.ok
    /\ ~last.raised
    /\ queue # {}

----------------------------------------------------------------------------
(* Vocabulary of the dedup properties *)

SavedIds == {e.id : e \in saved}
\* the record that the first save of e.id wrote
FirstRecord(e) == [id |-> e.id, received_at |-> IsoFormat(NowUtc(e.at))]

(* C4: exists(id) returns true if and only if some save(id) has completed    *)
(* earlier; saves of other identifiers do not make it true.                  *)
C4_ExistsIffSaved ==
    dlast.op = "exists" =>
        /\ ~dlast.raised
        /\ dlast.ok <=> dlast.id \in SavedIds

\* exists(id) returned false although another identifier had been saved
C4_Witness ==
    /\ dlast.op = "exists"
    /\ ~dlast.ok
    /\ SavedIds # {}

(* C5: once save(id) has returned, the record of id stays in the file and    *)
(* exists(id) returns true at every later point, across save, initialize_db, *)
(* close and reopen.                                                         *)
C5_SeenIsDurable ==
    /\ \A e \in saved : \E r \in seen : r.id = e.id
    /\ (dlast.op = "exists" /\ dlast.id \in SavedIds) => dlast.ok

\* exists(id) returned true under a manager made after the one that saved id
C5_Witness ==
    /\ dlast.op = "exists"
    /\ dlast.ok
    /\ \E e \in saved : e.id = dlast.id /\ e.mgr < mgr

(* C6: save(id) of a recorded id does not raise, leaves exactly one record   *)
(* for id whose received_at is the time of the first save, and leaves        *)
(* exists(id) true.                                                          *)
C6_SaveIdempotent ==
    /\ dlast.op = "save" =>
          /\ ~dlast.raised
          /\ Cardinality({r \in seen : r.id = dlast.id}) = 1
    /\ \A e \in saved : {r \in Visible : r.id = e.id} = {FirstRecord(e)}

\* save(id) returned at a later time than the first save(id)
C6_Witness ==
    /\ dlast.op = "save"
    /\ ~dlast.raised
    /\ \E e \in saved : e.id = dlast.id /\ e.at < dlast.at

----------------------------------------------------------------------------
(* C7: enqueue of a message whose identifier is already in the table fails   *)
(* with an error raised to the caller and leaves the store unchanged: the    *)
(* existing row keeps its priority, payload, created_at and status, and no   *)
(* second row is added.                                                      *)
C7_DuplicateEnqueueFails ==
    [][(Called("enqueue") /\ \E r \in queue : r.id = UuidStr(last'.id)) =>
          /\ last'.raised
          /\ queue' = queue]_vars

\* the primary key refused an insert and the row that holds the id is there
C7_Witness ==
    /\ last.op = "enqueue"
    /\ last.raised
    /\ last.err = "UNIQUE"
    /\ \E r \in queue : r.id = UuidStr(last.id) /\ r.priority = 10

(* C9: update_status(id, s) returns true exactly when a row with that id     *)
(* exists; then that row's status becomes s while its priority, payload and  *)
(* created_at and all other rows are unchanged; otherwise it returns false   *)
(* and the store is unchanged.                                               *)
C9_UpdateStep ==
    Called("update_status") =>
        LET idText == UuidStr(last'.id)
            present == \E r \in queue : r.id = idText
        IN  /\ last'.ok <=> present
            /\ Cardinality(queue') = Cardinality(queue)
            /\ \A r \in queue : r.id # idText => r \in queue'
            /\ \A r \in queue : r.id = idText =>
                  \E u \in queue' :
                      /\ u.id = r.id
                      /\ u.status = last'.st
                      /\ u.priority = r.priority
                      /\ u.payload = r.payload
                      /\ u.created_at = r.created_at
            /\ ~present => queue' = queue
C9_UpdateStatusFrame == [][C9_UpdateStep]_vars

\* a row was given a new status while another row has a different status
C9_Witness ==
    /\ last.op = "update_status"
    /\ last.ok
    /\ \E r \in queue : r.id = UuidStr(last.id) /\ r.status = last.st
    /\ \E r \in queue : r.id # UuidStr(last.id) /\ r.status # last.st

(* C10: get_by_id(id) after enqueue(msg) with msg.id = id and no intervening *)
(* delete, update or expiry returns a QueuedMessage whose id, priority,      *)
(* payload, created_at and status equal those enqueued; get_by_id of an id   *)
(* with no row returns None and does not raise.                              *)
C10_GetByIdReturnsEnqueued ==
    last.op = "get_by_id" =>
        /\ enq[last.id] # <<>> =>
              /\ ~last.raised
              /\ Len(last.batch) = 1
              /\ MsgEq(last.batch[1], enq[last.id][1])
        /\ (\A r \in queue : r.id # UuidStr(last.id)) =>
              ~last.raised /\ ~last.ok /\ last.batch = <<>>

(* C10, amended: the payload returned is the enqueued payload after JSON     *)
(* encoding and decoding (a tuple comes back as a list); the other fields    *)
(* equal those enqueued.                                                     *)
C10_GetByIdReturnsJsonRoundTrip ==
    last.op = "get_by_id" =>
        /\ enq[last.id] # <<>> =>
              /\ ~last.raised
              /\ Len(last.batch) = 1
              /\ MsgEq(last.batch[1],
                       [enq[last.id][1] EXCEPT
                           !.payload = JsonLoads(JsonDumps(@))])
        /\ (\A r \in queue : r.id # UuidStr(last.id)) =>
              ~last.raised /\ ~last.ok /\ last.batch = <<>>

\* get_by_id returned a message enqueued with a priority and an offset that
\* are not the defaults
C10_Witness ==
    /\ last.op = "get_by_id"
    /\ enq[last.id] # <<>>
    /\ Len(last.batch) = 1
    /\ last.batch[1].priority = 10
    /\ last.batch[1].created_at.off = 2

----------------------------------------------------------------------------
(* The protocol adapter *)

\* The step just taken read a line on connection c
ReadStep(c) == nlast'.op = "readline" /\ nlast'.conn = c /\ conns' # conns

\* a line that decodes, parses and validates
ValidLine(line) == line.kind = "json" /\ ~model_validate(line.data).raised

\* a non-blank line that fails UTF-8 decoding, JSON parsing or validation
FailingLine(line) ==
    \/ line.kind \in {"bad_utf8", "bad_json", "json_limit"}
    \/ line.kind = "json" /\ model_validate(line.data).raised

\* C11: every non-blank line that fails UTF-8 decoding, JSON parsing or
\* schema validation is answered with exactly one error frame, is not handed
\* to the handler, and ends the connection.
C11_RejectedLineAnswered ==
    [][\A c \in ConnIds :
          ReadStep(c) /\ FailingLine(nlast'.line) =>
              /\ Len(conns'[c].frames) = Len(conns[c].frames) + 1
              /\ conns'[c].handled = conns[c].handled
              /\ conns'[c].st = "closed"]_vars

FailureStep(c) ==
    /\ nlast'.conn = c
    /\ conns[c].st = "open" /\ conns'[c].st = "closed"
    /\ \/ nlast'.op = "handler_raised"
       \/ nlast'.op = "readline" /\ nlast'.line.kind # "eof"

\* C13: a failure on one connection (a rejected line, the handler raising)
\* ends at most that connection: the listener and every other connection are
\* left as they were, and a valid line read on any open connection is handed
\* to the handler whatever happened on the others.
C13_FailureIsPerConnection ==
    [][\A c \in ConnIds :
          /\ FailureStep(c) =>
                /\ \A d \in ConnIds \ {c} : conns'[d] = conns[d]
                /\ server' = server
                /\ net_running' = net_running
          /\ ReadStep(c) /\ ValidLine(nlast'.line) =>
                conns'[c].handled =
                    Append(conns[c].handled, TelexMessage(nlast'.line.data))]_vars

\* a message is delivered on one connection after another one failed
C13_Witness ==
    \E c, d \in ConnIds :
        /\ c # d
        /\ conns[c].st = "closed" /\ conns[c].frames # <<>>
        /\ nlast.op = "readline" /\ nlast.conn = d /\ ValidLine(nlast.line)
        /\ conns[d].st = "open" /\ Len(conns[d].handled) = 1
        /\ server = "listening"

\* The blocks that a JSON object lacks
MissingBlocks(data) ==
    (IF data.routing THEN {} ELSE {"routing"})
        \cup (IF data.content THEN {} ELSE {"content"})

\* C18: a JSON object without the routing block or without the content block
\* fails validation: no message is made of it, and the error, as the frame
\* sent to the peer repeats it, names each missing block.
C18_MissingBlockRejected ==
    \A c \in ConnIds :
        nlast.op = "readline" /\ nlast.conn = c
            /\ nlast.line.kind = "json" /\ nlast.line.data.type = "object"
            /\ MissingBlocks(nlast.line.data) # {} =>
            /\ model_validate(nlast.line.data).raised
            /\ model_validate(nlast.line.data).message = <<>>
            /\ MissingBlocks(nlast.line.data) \subseteq nlast.errors
            /\ conns[c].frames # <<>>
            /\ conns[c].frames[Len(conns[c].frames)].error = "Validation error"
            /\ MissingBlocks(nlast.line.data)
                   \subseteq conns[c].frames[Len(conns[c].frames)].fields

C18_Witness ==
    \E c \in ConnIds :
        /\ nlast.op = "readline" /\ nlast.conn = c
        /\ nlast.line.kind = "json" /\ nlast.line.data.type = "object"
        /\ ~nlast.line.data.routing /\ nlast.line.data.content
        /\ conns[c].frames = <<[error |-> "Validation error", fields |-> {"routing"}]>>

\* C19: every message handed to the handler has its routing and content
\* blocks and a priority in 1..9, which is 5 when the line gave none; a line
\* with a priority outside 1..9 is rejected and never reaches the handler.
C19_HandledStep ==
    \A c \in ConnIds :
        ReadStep(c) /\ nlast'.line.kind = "json" =>
            /\ nlast'.line.data.has_priority
                  /\ (nlast'.line.data.priority < 1 \/ nlast'.line.data.priority > 9) =>
                  /\ conns'[c].handled = conns[c].handled
                  /\ conns'[c].st = "closed"
            /\ ValidLine(nlast'.line) /\ ~nlast'.line.data.has_priority =>
                  conns'[c].handled[Len(conns'[c].handled)].priority = 5

C19_HandledSatisfySchema ==
    /\ [](\A c \in ConnIds : \A i \in 1..Len(conns[c].handled) :
             /\ conns[c].handled[i].routing
             /\ conns[c].handled[i].content
             /\ conns[c].handled[i].priority \in 1..9)
    /\ [][C19_HandledStep]_vars

\* a line with priority 10 was rejected on a connection that had a message
\* with the default priority handled before
C19_Witness ==
    \E c \in ConnIds :
        /\ nlast.op = "readline" /\ nlast.conn = c
        /\ nlast.line.data.has_priority /\ nlast.line.data.priority = 10
        /\ conns[c].st = "closed"
        /\ Len(conns[c].handled) = 1 /\ conns[c].handled[1].priority = 5

----------------------------------------------------------------------------
(* The garbage collector *)

\* The loop tasks that no cancel() has reached
LoopTasks(ts) == {t \in TaskIds : Live(ts, t)}

\* The step just taken is a call of start(); a call of stop(), up to its
\* await or to its return; the return of a stop() that found the collector
\* running
StartCalled == glast'.op = "start" /\ glast' # glast
StopCalled ==
    /\ glast'.op \in {"stop", "stop_await"}
    /\ stops \subseteq stops'
    /\ glast' # glast \/ gc_running' # gc_running
StopReturned ==
    /\ glast'.op = "stop" /\ glast'.running
    /\ stops' # stops \/ gc_running' # gc_running

\* The rows that a pass at the present time has to delete
ExpiredRows(tbl) ==
    {r \in tbl : TextLess(r.created_at, IsoFormat(CutoffTime(now)))}

\* C14: the collector is a machine of two states: start() on a stopped
\* collector makes it running with one loop task, start() on a running one
\* changes nothing, stop() on a running one makes it stopped, with no loop
\* task left when it returns, and stop() on a stopped one changes nothing.
C14_StartStopStep ==
    /\ StartCalled /\ ~gc_running =>
          gc_running' /\ Cardinality(LoopTasks(tasks')) = 1
    /\ StartCalled /\ gc_running =>
          UNCHANGED <<gc_running, gc_task, tasks, stops>>
    /\ StopCalled /\ gc_running => ~gc_running'
    /\ StopCalled /\ ~gc_running =>
          UNCHANGED <<gc_running, gc_task, tasks, stops>>
    /\ StopReturned => ~gc_running' /\ LoopTasks(tasks') = {}

C14_TwoStateMachine == [][C14_StartStopStep]_vars

\* C15: a pass that raises is caught: the collector stays running, the loop
\* goes to its sleep and, the sleep over, starts the next pass; a loop task
\* ends only when it is cancelled or the collector is no longer running.
C15_FailedPassStep ==
    \A t \in TaskIds :
        /\ ~tasks[t].failed /\ tasks'[t].failed =>
              /\ gc_running' = gc_running
              /\ gc_task' = gc_task
              /\ tasks'[t].pc \in {"close", "sleep"}
        /\ tasks[t].failed /\ tasks[t].pc = "close"
              /\ tasks'[t].pc # "close" /\ ~tasks[t].cancel =>
              tasks'[t].pc = "sleep" /\ tasks'[t].failed
        /\ tasks[t].failed /\ tasks[t].pc = "sleep"
              /\ tasks'[t].pc # "sleep" /\ ~tasks[t].cancel /\ gc_running =>
              tasks'[t].pc = "connect" /\ tasks'[t].after_failure
        /\ tasks[t].pc # "done" /\ tasks'[t].pc = "done" =>
              tasks[t].cancel \/ ~gc_running

C15_FailedPassIsCaught == [][C15_FailedPassStep]_vars

\* the pass after a failed pass is deleting an expired row
C15_Witness ==
    \E t \in TaskIds :
        /\ gc_running /\ gc_task = t
        /\ tasks[t].pc = "commit" /\ tasks[t].after_failure
        /\ tasks[t].expired # {}

\* C16 as stated: when a stop() that found the collector running returns,
\* every loop task has ended, and a pass that was under way when stop() was
\* called has been carried out: no expired row is left by it.
C16_StopStep ==
    StopReturned =>
        /\ \A t \in TaskIds : tasks'[t].pc \in {"none", "done"}
        /\ \A t \in stops \ stops' :
              tasks[t].hit \in {"connect", "delete", "commit"} =>
                  ExpiredRows(queue') = {}

C16_StopAwaitStep ==
    /\ \A t \in stops \ stops' : tasks'[t].pc = "done" /\ ~Live(tasks', t)
    /\ queue' # queue /\ tasks' # tasks =>
          \E t \in TaskIds :
              /\ tasks[t].pc = "commit"
              /\ tasks[t].expired # {}
              /\ tasks[t].expired =
                     {r \in queue : TextLess(r.created_at, tasks[t].cutoff)}
              /\ queue' = queue \ tasks[t].expired

----------------------------------------------------------------------------
(* Initialisation and the primary key *)

\* C17: initialising a store again, whatever rows it holds, raises nothing
\* and leaves every row as it was: initialize() for the queue store,
\* initialize_db() for the dedup store.
C17_InitStep ==
    /\ last'.op = "initialize" /\ last' # last =>
          queue' = queue /\ ~last'.raised
    /\ dlast'.op = "initialize_db" /\ dvars' # dvars =>
          /\ seen' \cup uncommitted' = seen \cup uncommitted
          /\ seen \subseteq seen'
          /\ ~dlast'.raised

C17_InitializeIsIdempotent == [][C17_InitStep]_vars

\* both stores hold rows and were initialised a further time
C17_Witness ==
    /\ last.op = "initialize" /\ Cardinality(queue) = 2
    /\ dlast.op = "initialize_db" /\ Cardinality(seen) = 2

\* C20: no two rows of message_queue have the same id, whatever sequence of
\* enqueue, update_status, delete and cleanup was applied.
C20_IdsAreUnique == \A r1, r2 \in queue : r1.id = r2.id => r1 = r2

\* an enqueue under a stored id, with another created_at, was refused
C20_Witness ==
    /\ last.op = "enqueue" /\ last.raised /\ last.err = "UNIQUE"
    /\ Cardinality(queue) = 2
    /\ \E r1, r2 \in queue : r1.id # r2.id /\ r1.created_at # r2.created_at

----------------------------------------------------------------------------
(* The priority column *)

\* C21: in every state of the queue store every stored row has its priority
\* in 0..10: an insert of a priority outside 0..10 is refused by the CHECK
\* constraint, and no operation adds or leaves a row out of the range.
C21_StoredPriorityInRange == \A r \in queue : r.priority \in 0..10

\* an insert was refused by the CHECK constraint while the store holds a row
\* at the upper end of the range
C21_Witness ==
    /\ last.op = "enqueue"
    /\ last.raised
    /\ last.err = "CHECK"
    /\ \E r \in queue : r.priority = 10

----------------------------------------------------------------------------
(* The EXPIRED status *)

\* C22: a cleanup pass removes every expired row (a row whose created_at is
\* an instant before the cutoff), whatever its status, and changes no field
\* of a row that survives: the rows after the pass are rows that were there
\* before it, so that no pass sets a status to EXPIRED.
C22_CleanupStep ==
    Called("cleanup_now") =>
        /\ \A r \in queue :
              DtLess(FromIsoFormat(r.created_at), CutoffTime(now)) => r \notin queue'
        /\ queue' \subseteq queue
        /\ \A r \in queue' : r.status = EXPIRED => r \in queue

C22_CleanupRemovesWhateverStatus == [][C22_CleanupStep]_vars

\* C23 as stated: no row with status EXPIRED is in the table, and get_by_id
\* returns no message with status EXPIRED.
C23_NoExpiredObservable ==
    /\ \A r \in queue : r.status # EXPIRED
    /\ last.op = "get_by_id" =>
          \A i \in 1..Len(last.batch) : last.batch[i].status # EXPIRED

\* C23, amended: a row has status EXPIRED only because a caller enqueued it
\* with that status or set it with update_status; delete and cleanup never
\* make such a row, and get_by_id returns the status that is stored.
C23_ExpiredStep ==
    /\ \A r \in queue' \ queue :
          r.status = EXPIRED =>
              \/ /\ Called("enqueue")
                 /\ ~last'.raised
                 /\ last'.msg[1].status = EXPIRED
                 /\ r.id = UuidStr(last'.id)
              \/ /\ Called("update_status")
                 /\ last'.st = EXPIRED
                 /\ r.id = UuidStr(last'.id)
    /\ Called("get_by_id") =>
          \A i \in 1..Len(last'.batch) :
              \E r \in queue : r.id = UuidStr(last'.id) /\ r.status = last'.batch[i].status

C23_ExpiredOnlyFromCaller == [][C23_ExpiredStep]_vars

\* get_by_id returned a message with status EXPIRED
C23_Witness ==
    /\ last.op = "get_by_id"
    /\ Len(last.batch) = 1
    /\ last.batch[1].status = EXPIRED

----------------------------------------------------------------------------
(* Caller-supplied creation times *)

\* C27: the messages of a batch come in the order of the instants their
\* created_at values denote, whatever the order of the enqueue calls and
\* whatever the UTC offsets the timestamps were written with.
C27_BatchOrderedByInstant ==
    last.op = "get_next_batch" =>
        \A i, j \in 1..Len(last.batch) :
            i < j => ~DtLess(last.batch[j].created_at, last.batch[i].created_at)

----------------------------------------------------------------------------
(* The order of pass and sleep *)

PassPcs == {"connect", "delete", "commit", "close"}

\* C24 as stated: every pass of the loop begins when a sleep is over, so that
\* no pass is begun before the loop has slept once.
C24_PassAfterSleepStep ==
    \A t \in TaskIds :
        tasks[t].pc \notin PassPcs /\ tasks'[t].pc \in PassPcs =>
            tasks[t].pc = "sleep" /\ tasks[t].slept

C24_SleepThenPass == [][C24_PassAfterSleepStep]_vars

\* C24, amended: each iteration performs one pass and then sleeps.  The first
\* pass begins when the loop task first runs after start(), before any sleep;
\* a pass that ends, whether it raised or not, is followed by the sleep; a
\* later pass begins only when a sleep is over.
C24_PassThenSleepStep ==
    \A t \in TaskIds :
        /\ tasks[t].pc = "start" /\ tasks'[t].pc # "start" /\ ~tasks[t].cancel =>
              IF gc_running
              THEN tasks'[t].pc = "connect" /\ ~tasks'[t].slept
              ELSE tasks'[t].pc = "done"
        /\ tasks[t].pc \notin PassPcs /\ tasks'[t].pc \in PassPcs =>
              tasks[t].pc \in {"start", "sleep"} /\ tasks'[t].pc = "connect"
        /\ tasks[t].pc \in PassPcs /\ tasks'[t].pc \notin PassPcs =>
              \/ tasks'[t].pc = "sleep" /\ tasks'[t].slept
              \/ tasks'[t].pc = "done" /\ tasks[t].cancel

C24_PassThenSleep == [][C24_PassThenSleepStep]_vars

\* the first pass of a loop is deleting an expired row and the loop has not
\* slept yet
C24_Witness ==
    \E t \in TaskIds :
        /\ gc_running /\ gc_task = t
        /\ tasks[t].pc = "commit"
        /\ ~tasks[t].slept
        /\ tasks[t].expired # {}

----------------------------------------------------------------------------
(* The manual pass *)

\* This step is a call of cleanup_now() on the collector (a call that
\* repeats the outcome of the call before it, with no enqueue in between,
\* finds nothing to remove and changes nothing)
CleanupNowCalled ==
    /\ glast'.op = "cleanup_now"
    /\ last'.op = "cleanup_now"
    /\ glast' # glast \/ last' # last

\* C26: each call of cleanup_now() performs exactly one pass (the rows older
\* than the cutoff of the call are removed at once, the others stay, and the
\* number removed is returned), whether the collector is stopped or running,
\* and leaves the running flag, the loop task and its progress as they were.
C26_CleanupNowStep ==
    CleanupNowCalled =>
        /\ UNCHANGED <<gc_running, gc_task, tasks, stops>>
        /\ last'.op = "cleanup_now"
        /\ last'.cutoff = IsoFormat(CutoffTime(now))
        /\ queue' = {r \in queue : ~TextLess(r.created_at, last'.cutoff)}
        /\ last'.count = Cardinality(queue \ queue')

C26_CleanupNowLeavesCollector == [][C26_CleanupNowStep]_vars

\* cleanup_now() removed a row while the collector was running, its loop in
\* the sleep between two passes
C26_Witness ==
    /\ glast.op = "cleanup_now" /\ glast.running
    /\ last.op = "cleanup_now" /\ last.count > 0
    /\ gc_running /\ gc_task # 0
    /\ tasks[gc_task].pc = "sleep"

----------------------------------------------------------------------------
(* Reaping by the running collector *)

\* The rows whose age exceeds the TTL
Aged(tbl) == {r \in tbl : DtLess(FromIsoFormat(r.created_at), CutoffTime(now))}

\* a step of the collector that removes rows removes only rows whose age
\* exceeds the TTL
C25_ReapStep ==
    (queue' # queue /\ tasks' # tasks) => queue \ queue' \subseteq Aged(queue)

\* while the collector stays running, the rows whose age exceeds the TTL are
\* eventually gone
C25_AgedEventuallyReaped ==
    (gc_running /\ Aged(queue) # {}) ~> (~gc_running \/ Aged(queue) = {})

\* C25: while the collector stays running and its loop task is scheduled
\* fairly, every row whose age exceeds the TTL is eventually removed with no
\* manual call, and the collector removes no row younger than the TTL.
C25_RunningCollectorReaps == [][C25_ReapStep]_vars /\ C25_AgedEventuallyReaped

----------------------------------------------------------------------------
(* Rows that fail to deserialize *)

\* The pending rows that deserialize, as messages
SoundPending(tbl) == {FromRow(r) : r \in {x \in tbl : x.status = PENDING /\ Parses(x)}}

\* C28: get_next_batch does not raise when rows it selected fail to
\* deserialize: such rows are skipped and the other selected rows are
\* returned, oldest first (with no limit in force, all the pending rows that
\* deserialize).
C28_CorruptRowsSkipped ==
    last.op = "get_next_batch" =>
        /\ ~last.raised
        /\ InBatch(last.batch) \subseteq SoundPending(queue)
        /\ \A i, j \in 1..Len(last.batch) :
              i < j => ~DtLess(last.batch[j].created_at, last.batch[i].created_at)
        /\ (last.limit < 0 \/ last.limit >= Cardinality(queue)) =>
              InBatch(last.batch) = SoundPending(queue)

----------------------------------------------------------------------------
(* Blank lines and the lines after a rejected one *)

\* The step just taken read a blank line on connection c
BlankStep(c) ==
    /\ nlast'.op = "readline" /\ nlast'.conn = c
    /\ nlast'.line.kind = "blank"
    /\ nlast' # nlast \/ conns' # conns

\* C29 as stated: a line that is empty once trimmed is skipped silently: no
\* error frame, no call of the handler, and the connection stays open and
\* reads its next line.
C29_BlankStepStaysOpen ==
    \A c \in ConnIds :
        BlankStep(c) =>
            /\ conns'[c].frames = conns[c].frames
            /\ conns'[c].handled = conns[c].handled
            /\ conns'[c].st = "open"
            /\ conns'[c].pc = "readline"

C29_BlankStepWhileRunning ==
    \A c \in ConnIds :
        BlankStep(c) =>
            /\ conns'[c].frames = conns[c].frames
            /\ conns'[c].handled = conns[c].handled
            /\ net_running => conns'[c] = conns[c] /\ conns'[c].pc = "readline"
            /\ ~net_running => conns'[c].st = "closed"
            /\ \A d \in ConnIds \ {c} : conns'[d] = conns[d]

C30_AfterRejectStep ==
    \A c \in ConnIds :
        /\ ReadStep(c) /\ FailingLine(nlast'.line) =>
              /\ conns'[c].st = "closed"
              /\ conns'[c].handled = conns[c].handled
        /\ conns[c].st = "closed" => conns'[c] = conns[c]

C30_NothingAfterRejectedLine == [][C30_AfterRejectStep]_vars

\* a connection that handled a message was closed on a rejected line, and
\* lines were read on another connection since
C30_Witness ==
    \E c \in ConnIds :
        /\ conns[c].st = "closed"
        /\ Len(conns[c].frames) = 1
        /\ Len(conns[c].handled) = 1
        /\ nlast.op = "readline" /\ nlast.conn # c

----------------------------------------------------------------------------
(* Overlapping calls of start() and stop() *)

\* C34: whatever the interleaving of start() and stop() calls on one
\* collector, at most one loop task that no cancel() has reached is alive,
\* and that task is the one self._task refers to, so that the next stop()
\* cancels it.
C34_OneReferencedLoopTask ==
    /\ Cardinality(LoopTasks(tasks)) <= 1
    /\ \A t \in LoopTasks(tasks) : gc_task = t

----------------------------------------------------------------------------
(* Error frames and the handler *)

\* C39: an error frame goes to a peer only on the step that read a line of
\* its connection which failed UTF-8 decoding, JSON parsing or validation; no
\* frame is sent for a line that validated, whatever the handler raises.
C39_ErrorFrameStep ==
    \A c \in ConnIds :
        conns'[c].frames # conns[c].frames =>
            /\ ReadStep(c)
            /\ FailingLine(nlast'.line)

C39_ErrorFrameOnlyForFailingLine == [][C39_ErrorFrameStep]_vars

----------------------------------------------------------------------------
(* The adapter after stop() *)

\* stop() has returned: the listener is closed and _running is False
Stopped == server = "closed" /\ ~net_running

\* C32: stop() closes no accepted connection, and once it has returned the
\* adapter reads on none of them: a line that arrives after the return is
\* neither validated (no error frame answers it) nor handed to the handler.
C32_AfterStopStep ==
    /\ nlast'.op \in {"server_close", "stop"} /\ server' # server =>
          conns' = conns
    /\ \A c \in ConnIds :
          ReadStep(c) /\ Stopped /\ nlast'.line.kind \notin {"eof", "blank"} =>
              /\ conns'[c].handled = conns[c].handled
              /\ conns'[c].frames = conns[c].frames

C32_NoLineHandledAfterStop == [][C32_AfterStopStep]_vars

----------------------------------------------------------------------------
(* Connections side by side *)

\* connection c is suspended in readline with room for one more message
Idle(c) ==
    /\ conns[c].st = "open" /\ conns[c].pc = "readline"
    /\ Len(conns[c].handled) < MaxHandled

\* a valid line, as a peer sends it
AValidLine == Line("json", JsonObject(TRUE, TRUE, FALSE, 0))

\* the handler was invoked on the step just taken
Invoked(c) == conns'[c].handled # conns[c].handled

\* C31: connections are served side by side. A connection waiting for bytes
\* delays no other one: a line that arrives on a waiting connection is read
\* whatever the other connections are doing. Every step of one connection
\* leaves the others as they are, and the handler is invoked once for each
\* valid line read and at no other step, so k clients sending one valid
\* message each give k invocations.
C31_ServeStep ==
    \A c \in ConnIds :
        /\ conns'[c] # conns[c] /\ nlast'.op # "accept" =>
              /\ nlast'.conn = c
              /\ \A d \in ConnIds \ {c} : conns'[d] = conns[d]
        /\ Invoked(c) <=> ReadStep(c) /\ ValidLine(nlast'.line)
        /\ Invoked(c) =>
              conns'[c].handled =
                  Append(conns[c].handled, TelexMessage(nlast'.line.data))

C31_IdleDelaysNobody ==
    \A c \in ConnIds : Idle(c) => ENABLED ReadLine(c, AValidLine)

C31_ConnectionsIndependent == [][C31_ServeStep]_vars /\ []C31_IdleDelaysNobody

\* two clients have sent one message each: the second line was read while
\* the handler of the first was still awaited, and each was handled once
C31_Witness ==
    \E c, d \in ConnIds :
        /\ c # d
        /\ conns[c].st = "open" /\ conns[c].pc = "handler"
        /\ Len(conns[c].handled) = 1
        /\ nlast.op = "readline" /\ nlast.conn = d /\ ValidLine(nlast.line)
        /\ conns[d].st = "open" /\ Len(conns[d].handled) = 1

----------------------------------------------------------------------------
(* Status transitions *)

\* the created_at column of the row that holds message m
CreatedAtText(m) == IsoFormat(m.created_at)

\* C37: update_status validates no transition: on an existing row it sets
\* the status asked for whatever the row's status was, and changes nothing
\* else of the row. get_next_batch goes by the status and the created_at
\* columns alone: a row set back to PENDING is returned again, every batch is
\* in the order of the stored created_at, and a PENDING row left out by the
\* limit has a created_at not before that of any row returned.
C37_TransitionStep ==
    /\ Called("update_status") =>
          \A r \in queue : r.id = UuidStr(last'.id) =>
              /\ last'.ok
              /\ last'.was = r.status
              /\ [r EXCEPT !.status = last'.st] \in queue'
    /\ Called("get_next_batch") =>
          LET b == last'.batch
              left == {m \in PendingStored(queue) : m \notin InBatch(b)}
          IN  /\ InBatch(b) \subseteq PendingStored(queue)
              /\ last'.limit < 0 => left = {}
              /\ last'.limit >= 0 =>
                    Len(b) = Min(last'.limit, Cardinality(PendingStored(queue)))
              /\ \A i, j \in 1..Len(b) :
                    i < j => ~TextLess(CreatedAtText(b[j]), CreatedAtText(b[i]))
              /\ \A m \in left, i \in 1..Len(b) :
                    ~TextLess(CreatedAtText(m), CreatedAtText(b[i]))

C37_AnyTransitionAndRequeue == [][C37_TransitionStep]_vars

\* a row that was SENT or FAILED has just been set back to PENDING, beside
\* a PENDING row with a later created_at
C37_Witness ==
    /\ last.op = "update_status" /\ last.ok
    /\ last.was \in {SENT, FAILED} /\ last.st = PENDING
    /\ \E r, u \in queue :
          /\ r.id = UuidStr(last.id) /\ r.status = PENDING
          /\ u.id # r.id /\ u.status = PENDING
          /\ TextLess(r.created_at, u.created_at)

----------------------------------------------------------------------------
(* Reads *)

\* the step just taken is a read of the store
ReadCalled == Called("get_next_batch") \/ Called("get_by_id")

\* C38: get_next_batch and get_by_id write nothing: the store is the same
\* after the call, and every message returned is still stored as it was
\* returned (a returned PENDING row is still PENDING, nothing is claimed).
\* A get_next_batch that follows one with the same limit, nothing written in
\* between, returns as many rows with the same created_at values in the same
\* order, and the same rows when the limit cuts off none of them, so two
\* consumers are handed the same messages.
C38_ReadStep ==
    /\ ReadCalled =>
          /\ queue' = queue
          /\ InBatch(last'.batch) \subseteq Stored(queue')
    /\ Called("get_next_batch") =>
          \A m \in InBatch(last'.batch) : m.status = PENDING
    /\ Called("get_next_batch") /\ last.op = "get_next_batch"
          /\ last.limit = last'.limit =>
          /\ Len(last'.batch) = Len(last.batch)
          /\ \A i \in 1..Len(last.batch) :
                CreatedAtText(last'.batch[i]) = CreatedAtText(last.batch[i])
          /\ Len(last.batch) = Cardinality(PendingStored(queue)) =>
                InBatch(last'.batch) = InBatch(last.batch)

C38_ReadsLeaveStore == [][C38_ReadStep]_vars

\* a batch was returned and its rows are all still PENDING in the store, to
\* be returned to the next caller
C38_Witness ==
    /\ last.op = "get_next_batch"
    /\ Len(last.batch) = 2
    /\ \A i \in 1..2 : ToRow(last.batch[i]) \in queue
                        /\ last.batch[i].status = PENDING

----------------------------------------------------------------------------
(* Supplied and generated fields of a message *)

\* the instant an ISO-8601 text denotes, 'Z' being UTC
TextInstant(t) ==
    IF t[2] = ZChar THEN t[1]
    ELSE IF t[2] = PlusChar THEN t[1] - t[3] ELSE t[1] + t[3]

\* a text that is an ISO-8601 timestamp with an offset or a trailing Z
IsoText(t) == t[2] \in {PlusChar, MinusChar, ZChar}

\* an object whose required blocks are there and whose fields are valid
ValidObject(d) ==
    /\ d.type = "object" /\ d.routing /\ d.content
    /\ d.has_priority => PriorityInRange(d.priority)
    /\ d.message_id # <<>> => d.message_id[1][1] = "uuid"
    /\ d.timestamp_created # <<>> => IsoText(d.timestamp_created[1])

\* C33: model_validate succeeds on every object whose required fields are
\* present and valid, and the message carries what was supplied: the
\* message_id supplied, a timestamp_created that denotes the instant the
\* text denotes, a text ending in Z giving the same datetime as the text
\* with +00:00 in its place; values are generated only for absent keys.
C33_SuppliedFieldsKept ==
    nlast.op = "model_validate" /\ ValidObject(nlast.line.data) =>
        LET d == nlast.line.data
        IN  /\ nlast.errors = {}
            /\ Len(nlast.message) = 1
            /\ d.message_id # <<>> =>
                  UuidStr(nlast.message[1].message_id) = d.message_id[1]
            /\ d.timestamp_created # <<>> =>
                  /\ Instant(nlast.message[1].timestamp_created)
                         = TextInstant(d.timestamp_created[1])
                  /\ d.timestamp_created[1][2] = ZChar =>
                        nlast.message[1].timestamp_created =
                            TimestampCreated(
                                [d EXCEPT !.timestamp_created =
                                     <<IsoFormat(Datetime(d.timestamp_created[1][1], 0))>>],
                                now)
            /\ d.timestamp_created = <<>> =>
                  \E t \in 0..now : nlast.message[1].timestamp_created = NowUtc(t)
            /\ nlast.message[1].body = TelexMessage(d)

\* a message was validated that supplied an id other than the one uuid4()
\* would have drawn and a timestamp ending in Z, at a later time
C33_Witness ==
    /\ nlast.op = "model_validate"
    /\ ValidObject(nlast.line.data)
    /\ nlast.line.data.message_id = <<UuidStr(2)>>
    /\ nlast.line.data.timestamp_created = <<ZText(1)>>
    /\ now = 2
    /\ Len(nlast.message) = 1
    /\ nlast.message[1].message_id = 2
    /\ Instant(nlast.message[1].timestamp_created) = 1

----------------------------------------------------------------------------
(* Connections of the cleanup passes *)

\* the task is in no pass: not created, not yet run, asleep, or ended
OutOfPass(tk) == tk.pc \in {"none", "start", "sleep", "done"}

\* C40: every cleanup pass closes the connection it opened on every way out,
\* the statement raising and the task being cancelled included: a task that
\* is in no pass has no connection open.
C40_PassLeavesNoConnection ==
    \A t \in TaskIds : OutOfPass(tasks[t]) => tasks[t].conn = "none"

----------------------------------------------------------------------------
(* A polling consumer and rows that do not deserialize *)

\* message m is in the batch the consumer was returned last
Received(m) == last.op = "get_next_batch" /\ m \in InBatch(last.batch)

\* C36: a consumer that goes on calling get_next_batch(limit), limit >= 1,
\* and deletes every row it is returned is in the end returned every PENDING
\* row that deserializes, older PENDING rows that do not deserialize
\* notwithstanding.
C36_EveryPendingRowReceived ==
    \A m \in SoundMessages : (ToRow(m) \in queue) ~> Received(m)

\* the same when every stored row deserializes
C36_ReceivedWhenAllParse ==
    \A m \in SoundMessages :
        (ToRow(m) \in queue) ~> (Received(m) \/ \E r \in queue : ~Parses(r))

----------------------------------------------------------------------------
(* The connection of the dedup manager *)

\* C35: the dedup DatabaseManager has at most one connection open at any
\* time, the one self._connection refers to, whatever the interleaving of
\* its callers, so that close() leaves none open.
C35_AtMostOneConnection ==
    /\ Cardinality(pool.opened) <= 1
    /\ \A c \in pool.opened : pool.connection = c

============================================================================
